---- MODULE Spec2Model ----
(***************************************************************************)
(* Homie dashboard: the proxy server (server.js) and the browser pollers   *)
(* (src/app.js).                                                            *)
(*                                                                          *)
(* Text is modelled as a sequence of atoms.  An atom is either one          *)
(* character of a secret or a literal chunk of a template string of the     *)
(* source ("?", "key=", "http://192.168.0.220:9191/").                      *)
(***************************************************************************)
EXTENDS Integers, Sequences, FiniteSets, TLC

\* ------------------------------------------------------------------ bounds
MaxKeyLen == 1
MaxRequests == 2
MaxTimers == 2
MaxInFlight == 2

\* --------------------------------------------------------- program constants
SnippetMax == 2000
POLL_INTERVAL == 3000
PODMAN_INTERVAL == 60000
TAUTULLI_POLL_INTERVAL == 15000
VM_DEFAULT_INTERVAL == 5000

VARIABLES
    \* server.js
    LOGGING_ENABLED,        \* server.js:13
    PROXMOX_TOKEN,          \* server.js:37
    logFile,                \* the lines of logs/proxmox.jsonl
    warned,                 \* the count of 'Failed to write proxmox log' warnings
    reqs,                   \* the requests received, in arrival order
    fetches,                \* the outbound calls issued
    sent,                   \* the responses written to clients
    \* src/app.js
    pollTimer,              \* app.js:121, 0 for null
    podmanTimer,            \* app.js:125, 0 for null
    tautulliTimer,          \* app.js:405, 0 for null
    timers,                 \* the browser's interval table: timers[id]
    ticks,                  \* the poll ticks awaiting a fetch, oldest first
    display,                \* what each card shows
    hung,                   \* the endpoints whose fetch never settles
    chat,                   \* the calls of sendToAiServer, app.js:588
    calc                    \* a normalisation or rendering applied to one input

serverVars == <<LOGGING_ENABLED, PROXMOX_TOKEN, logFile, warned, reqs, fetches, sent>>
clientVars == <<pollTimer, podmanTimer, tautulliTimer, timers, ticks, display, hung>>
pureVars == <<chat, calc>>
vars == <<serverVars, clientVars, pureVars>>

\* no function under evaluation
NoCalc == [fn |-> "none"]

\* ------------------------------------------------------------------- text
Min(a, b) == IF a < b THEN a ELSE b

\* s.includes(sub) for a non-empty sub
Contains(s, sub) ==
    /\ Len(sub) > 0
    /\ \E i \in 0..(Len(s) - Len(sub)) : SubSeq(s, i + 1, i + Len(sub)) = sub

\* text.slice(0, n)
Slice0(s, n) == SubSeq(s, 1, Min(Len(s), n))

\* the characters a secret is made of: one unreserved, one reserved
SecretChars == {"s", "="}

RECURSIVE StringsUpTo(_, _)
StringsUpTo(chars, n) ==
    IF n = 0 THEN {<<>>}
    ELSE LET shorter == StringsUpTo(chars, n - 1)
         IN  shorter \cup {Append(s, c) : s \in shorter, c \in chars}

\* process.env.X || null: unset and empty are both falsy, written <<>>
NoKey == <<>>
Keys == StringsUpTo(SecretChars, MaxKeyLen)

\* a field a record does not carry
Absent == <<"(absent)">>

EncodeChar(c) ==
    CASE c = "=" -> <<"%3D">>
      [] c = "&" -> <<"%26">>
      [] c = "?" -> <<"%3F">>
      [] OTHER   -> <<c>>

RECURSIVE encodeURIComponent(_)
encodeURIComponent(s) ==
    IF s = <<>> THEN <<>>
    ELSE EncodeChar(Head(s)) \o encodeURIComponent(Tail(s))

\* the secret, raw or percent-encoded, is readable in the text
Leaks(text, key) ==
    /\ key # NoKey
    /\ Contains(text, key) \/ Contains(text, encodeURIComponent(key))

REDACTED == "[REDACTED]"

\* String(target).replace(/([?&]<param>)[^&]*/i, '$1[REDACTED]'): the first match only
ScrubParam(target, param) ==
    LET starts == {i \in 1..(Len(target) - 1) :
                      target[i] \in {"?", "&"} /\ target[i + 1] = param}
    IN  IF starts = {} THEN target
        ELSE LET i == CHOOSE x \in starts : \A y \in starts : x <= y
                 stops == {j \in (i + 2)..Len(target) : target[j] = "&"}
                 e == IF stops = {} THEN Len(target) + 1
                      ELSE CHOOSE x \in stops : \A y \in stops : x <= y
             IN  SubSeq(target, 1, i + 1) \o <<REDACTED>>
                    \o SubSeq(target, e, Len(target))

\* ------------------------------------------------------------ upstream data
\* JSON.parse accepts a text when, whitespace aside, it is one of these documents
DOC_RUNNING == <<"{\"data\":{\"status\":\"running\"}}">>
DOC_STOPPED == <<"{\"data\":{\"status\":\"stopped\"}}">>
DOC_ONLINE  == <<"{\"data\":{\"status\":\"online\"}}">>
DOC_FLAG    == <<"{\"data\":{\"online\":true}}">>
DOC_EMPTY   == <<"{\"data\":{}}">>
DOC_NODATA  == <<"{\"errors\":\"no such vm\"}">>
DOC_ARRAY   == <<"[]">>
DOC_NULL    == <<"null">>
JsonDocs == {DOC_RUNNING, DOC_STOPPED, DOC_ONLINE, DOC_FLAG, DOC_EMPTY, DOC_NODATA,
             DOC_ARRAY, DOC_NULL}

RawText == <<"Bad Gateway">>

Compact(text) == SelectSeq(text, LAMBDA c : c # " ")
JsonParses(text) == Compact(text) \in JsonDocs
\* JSON.stringify(JSON.parse(text)) for a text that parses
JsonRoundTrip(text) == Compact(text)
\* JSON.parse(text) === null
ParsesToNull(text) == Compact(text) = DOC_NULL
\* body.data of the parsed text is truthy
HasData(text) ==
    Compact(text) \in {DOC_RUNNING, DOC_STOPPED, DOC_ONLINE, DOC_FLAG, DOC_EMPTY}
\* body.data.status, "" when the data section has none
DataStatus(text) ==
    CASE Compact(text) = DOC_RUNNING -> "running"
      [] Compact(text) = DOC_STOPPED -> "stopped"
      [] Compact(text) = DOC_ONLINE -> "online"
      [] OTHER -> ""
\* body.data.online is truthy
DataOnline(text) == Compact(text) = DOC_FLAG

\* what an upstream may answer, per category
PassthroughTexts == {DOC_RUNNING, RawText}
VmTexts == {<<" ">> \o DOC_RUNNING, DOC_STOPPED, DOC_ONLINE, DOC_FLAG, DOC_EMPTY,
            DOC_NODATA, RawText}
FeedTexts == {<<" ">> \o DOC_ARRAY, DOC_NULL, RawText}
UpstreamStatuses == {200, 404}

\* node-fetch rejects with a FetchError whose message names the request URL
FetchErrorText(url) ==
    <<"FetchError: request to ">> \o url \o <<" failed, reason: connect ECONNREFUSED">>
ErrorTexts(url) == {FetchErrorText(url)}

Replies(texts) == [kind : {"reply"}, status : UpstreamStatuses, text : texts, err : {Absent}]
Throws(url) == [kind : {"throw"}, status : {0}, text : {Absent}, err : ErrorTexts(url)]
Outcomes(texts, url) == Replies(texts) \cup Throws(url)

\* ------------------------------------------------------------- server.js
R_NODE     == "/api/proxmox/nodes/:node/status"
R_VM       == "/api/proxmox/vm/:vmid/online"
R_ROOT     == "/api/proxmox/root"
R_PODMAN   == "/api/podman/containers"
R_TAUTULLI == "/api/tautulli/now_playing"
R_ENV      == "/env.js"

\* the request parameters drawn
NodeParams == {<<"pve-master">>}
VmidParams == {<<"108">>}
NodeQueries == {<<>>, <<"pve-mac">>}

PROXMOX_BASE == <<"https://aj-proxmox.duckdns.org:8006">>

\* fs.appendFileSync may throw; the line is then dropped
WriteResults == IF LOGGING_ENABLED THEN BOOLEAN ELSE {TRUE}

\* appendLog writing the file anew with each record
appendLog_Overwrite(file, obj, writeOk) ==
    IF ~LOGGING_ENABLED THEN file
    ELSE IF writeOk THEN <<obj>>
    ELSE file

\* appendLog without its LOGGING_ENABLED test
appendLog_Always(file, obj, writeOk) ==
    IF writeOk THEN Append(file, obj) ELSE file

appendLog(file, obj, writeOk) ==
    IF ~LOGGING_ENABLED THEN file
    ELSE IF writeOk THEN Append(file, obj)
    ELSE file

\* the catch of appendLog: console.warn
appendLogWarns(n, writeOk) ==
    IF LOGGING_ENABLED /\ ~writeOk THEN n + 1 ELSE n

LogRec(route, url, status, error, snippet, vmid, node) ==
    [route |-> route, url |-> url, status |-> status, error |-> error,
     body_snippet |-> snippet, vmid |-> vmid, node |-> node]

\* res.status(code).json({ error: msg })
JsonError(msg) == <<"{\"error\":\"">> \o msg \o <<"\"}">>

Response(i, status, body) == [req |-> i, status |-> status, body |-> body]

\* headers['Authorization'], set only when the token is
AuthHeader ==
    IF PROXMOX_TOKEN # NoKey THEN <<"PVEAPIToken=">> \o PROXMOX_TOKEN ELSE Absent

\* key: the credential the handler read from process.env for this request
Request(route, node, vmid, url, key, state) ==
    [route |-> route, node |-> node, vmid |-> vmid, url |-> url, key |-> key,
     state |-> state]

\* await fetch(url, opts): the call leaves, the handler is suspended
IssueFetch(route, node, vmid, url, key, auth) ==
    /\ fetches' = Append(fetches, [req |-> Len(reqs) + 1, url |-> url, authorization |-> auth])
    /\ reqs' = Append(reqs, Request(route, node, vmid, url, key, "awaiting"))
    /\ UNCHANGED <<logFile, warned, sent>>

\* appendLog without its try/catch: a failed write ends the handler in its catch
Finish_WriteThrows(i, obj, res, writeOk) ==
    /\ logFile' = appendLog(logFile, obj, writeOk)
    /\ warned' = appendLogWarns(warned, writeOk)
    /\ sent' = Append(sent, IF LOGGING_ENABLED /\ ~writeOk
                            THEN Response(i, 500, JsonError(<<"Error: ENOSPC">>))
                            ELSE res)
    /\ reqs' = [reqs EXCEPT ![i].state = "done"]
    /\ UNCHANGED fetches

\* the handler logs obj, answers res and returns
Finish(i, obj, res, writeOk) ==
    /\ logFile' = appendLog(logFile, obj, writeOk)
    /\ warned' = appendLogWarns(warned, writeOk)
    /\ sent' = Append(sent, res)
    /\ reqs' = [reqs EXCEPT ![i].state = "done"]
    /\ UNCHANGED fetches

\* the constants of the process, and the browser, which no handler touches
ConfigUnchanged ==
    UNCHANGED <<LOGGING_ENABLED, PROXMOX_TOKEN, clientVars, pureVars>>

Awaiting(i, route) == reqs[i].route = route /\ reqs[i].state = "awaiting"

\* proxRes.status || 502
StatusOr502(status) == IF status # 0 THEN status ELSE 502

\* --- GET /api/proxmox/nodes/:node/status
\* --- the middleware stack; a path is the sequence of the atoms of req.path
P_SERVER  == <<"/", "server", ".", "js">>
P_PACKAGE == <<"/", "package", ".", "json">>
P_LOCK    == <<"/", "package", "-lock", ".", "json">>
P_DOTENV  == <<"/", ".", "env">>
P_LOGFILE == <<"/", "logs", "/", "proxmox", ".", "jsonl">>
P_GITCFG  == <<"/", ".", "git", "/", "config">>
P_INDEX   == <<"/", "index", ".", "html">>
P_MISSING == <<"/", "favicon", ".", "ico">>
P_ENVJS   == <<"/", "env", ".", "js">>

NodeStatusPath(node) == <<"/", "api", "/", "proxmox", "/", "nodes", "/">> \o node \o <<"/", "status">>
VmOnlinePath(vmid) == <<"/", "api", "/", "proxmox", "/", "vm", "/">> \o vmid \o <<"/", "online">>
RootPath == <<"/", "api", "/", "proxmox", "/", "root">>
PodmanPath == <<"/", "api", "/", "podman", "/", "containers">>
TautulliPath == <<"/", "api", "/", "tautulli", "/", "now_playing">>

\* the paths the app.get('/api/...') routes match
ApiPaths ==
    {NodeStatusPath(n) : n \in NodeParams} \cup {VmOnlinePath(v) : v \in VmidParams}
        \cup {RootPath, PodmanPath, TautulliPath}

\* the other paths requested
OtherPaths == {P_SERVER, P_PACKAGE, P_LOCK, P_DOTENV, P_LOGFILE, P_GITCFG, P_INDEX, P_MISSING}

\* the files under __dirname
FilesOnDisk == OtherPaths \ {P_MISSING}

StartsWith(path, prefix) ==
    Len(path) >= Len(prefix) /\ SubSeq(path, 1, Len(prefix)) = prefix

blockedExact == {P_SERVER, P_PACKAGE, P_LOCK, P_DOTENV}

Blocked(path) ==
    \/ path \in blockedExact
    \/ StartsWith(path, <<"/", "logs">>)
    \/ StartsWith(path, <<"/", ".">>)

L_ROUTES == "app.get /api"
L_BLOCK  == "blocking middleware"
L_ENV    == "app.get /env.js"
L_STATIC == "express.static"

\* the stack with express.static registered first
Stack_StaticFirst == <<L_ROUTES, L_STATIC, L_BLOCK, L_ENV>>

\* the layers in the order server.js registers them
Stack == <<L_ROUTES, L_BLOCK, L_ENV, L_STATIC>>

\* express.static with dotfiles: 'ignore' serves the file, or calls next()
StaticServes(path) ==
    path \in FilesOnDisk /\ \A k \in 1..(Len(path) - 1) : ~(path[k] = "/" /\ path[k + 1] = ".")

\* the layer from the k-th on that answers a GET of path; "" when none does
RECURSIVE Answers(_, _)
Answers(path, k) ==
    IF k > Len(Stack) THEN ""
    ELSE LET layer == Stack[k]
             takes == CASE layer = L_ROUTES -> path \in ApiPaths
                        [] layer = L_BLOCK -> Blocked(path)
                        [] layer = L_ENV -> path = P_ENVJS
                        [] OTHER -> StaticServes(path)
         IN  IF takes THEN layer ELSE Answers(path, k + 1)

NodeStatusUrl(node) ==
    PROXMOX_BASE \o <<"/api2/json/nodes/">> \o encodeURIComponent(node) \o <<"/status">>

NodeStatusLog(r, o) ==
    IF o.kind = "reply"
    THEN LogRec(R_ROOT, r.url, o.status, Absent, Slice0(o.text, SnippetMax), Absent, Absent)
    ELSE LogRec(R_ROOT, r.url, 0, o.err, Absent, Absent, Absent)

\* the handler answering 200 whatever the upstream's status
NodeStatusResponse_Always200(i, o) ==
    IF o.kind = "reply" THEN Response(i, 200, o.text)
    ELSE Response(i, 500, JsonError(o.err))

NodeStatusResponse(i, o) ==
    IF o.kind = "reply" THEN Response(i, o.status, o.text)
    ELSE Response(i, 500, JsonError(o.err))

NodeStatusBegin(node) ==
    /\ Len(reqs) < MaxRequests
    /\ Answers(NodeStatusPath(node), 1) = L_ROUTES
    /\ IssueFetch(R_NODE, node, Absent, NodeStatusUrl(node), PROXMOX_TOKEN, AuthHeader)
    /\ ConfigUnchanged

NodeStatusResume(i, o, writeOk) ==
    /\ Awaiting(i, R_NODE)
    /\ Finish(i, NodeStatusLog(reqs[i], o), NodeStatusResponse(i, o), writeOk)
    /\ ConfigUnchanged

\* --- GET /api/proxmox/vm/:vmid/online?node=NODE
VmNode(q) == IF q # <<>> THEN q ELSE <<"pve-gamehost">>

VmUrl(vmid, node) ==
    PROXMOX_BASE \o <<"/api2/json/nodes/">> \o encodeURIComponent(node)
        \o <<"/qemu/">> \o encodeURIComponent(vmid) \o <<"/status/current">>

\* body = await proxRes.json().catch(() => null)
VmBodyIsNull(text) == ~JsonParses(text) \/ ParsesToNull(text)

VmLog(r, o) ==
    IF o.kind = "reply"
    THEN LogRec(R_VM, r.url, o.status, Absent,
                IF VmBodyIsNull(o.text) THEN Absent
                ELSE Slice0(JsonRoundTrip(o.text), SnippetMax),
                r.vmid, r.node)
    ELSE LogRec(R_VM, r.url, 0, o.err, Absent, r.vmid, r.node)

VmJson(vmid, node, online, status) ==
    <<"{\"vmid\":\"">> \o vmid \o <<"\",\"node\":\"">> \o node
        \o <<"\",\"online\":", IF online THEN "true" ELSE "false",
             ",\"status\":\"", status, "\"">>

\* the handler taking body.data.status alone
vmStatus_Literal(text) == DataStatus(text)

\* body.data.status || (body.data.online ? 'running' : 'stopped')
vmStatus(text) ==
    IF DataStatus(text) # "" THEN DataStatus(text)
    ELSE IF DataOnline(text) THEN "running" ELSE "stopped"

VmResponse(i, r, o) ==
    IF o.kind = "throw" THEN Response(i, 500, JsonError(o.err))
    ELSE IF VmBodyIsNull(o.text) \/ ~HasData(o.text)
    THEN Response(i, StatusOr502(o.status),
                  VmJson(r.vmid, r.node, FALSE, "unknown")
                     \o <<",\"proxmox_status\":", ToString(o.status), ",\"body\":">>
                     \o (IF VmBodyIsNull(o.text) THEN <<"null">> ELSE JsonRoundTrip(o.text))
                     \o <<"}">>)
    ELSE LET online == vmStatus(o.text) = "running" \/ vmStatus(o.text) = "online"
         IN  Response(i, 200, VmJson(r.vmid, r.node, online, vmStatus(o.text)) \o <<"}">>)

VmOnlineBegin(vmid, q) ==
    /\ Len(reqs) < MaxRequests
    /\ Answers(VmOnlinePath(vmid), 1) = L_ROUTES
    /\ IssueFetch(R_VM, VmNode(q), vmid, VmUrl(vmid, VmNode(q)), PROXMOX_TOKEN, AuthHeader)
    /\ ConfigUnchanged

\* the handler without the return of its no-data answer: it reads body.data
\* next, throws, and answers once more from its catch
VmOnlineResume_NoReturn(i, o, writeOk) ==
    /\ Awaiting(i, R_VM)
    /\ logFile' = appendLog(logFile, VmLog(reqs[i], o), writeOk)
    /\ warned' = appendLogWarns(warned, writeOk)
    /\ sent' = IF o.kind = "reply" /\ (VmBodyIsNull(o.text) \/ ~HasData(o.text))
               THEN Append(Append(sent, VmResponse(i, reqs[i], o)),
                           Response(i, 500, JsonError(<<"TypeError">>)))
               ELSE Append(sent, VmResponse(i, reqs[i], o))
    /\ reqs' = [reqs EXCEPT ![i].state = "done"]
    /\ UNCHANGED fetches
    /\ ConfigUnchanged

VmOnlineResume(i, o, writeOk) ==
    /\ Awaiting(i, R_VM)
    /\ Finish(i, VmLog(reqs[i], o), VmResponse(i, reqs[i], o), writeOk)
    /\ ConfigUnchanged

\* --- GET /api/proxmox/root
RootUrl == PROXMOX_BASE \o <<"/">>

\* node: req.params.node is undefined on this route
RootLog(r, o) ==
    IF o.kind = "reply"
    THEN LogRec(R_NODE, r.url, o.status, Absent, Slice0(o.text, SnippetMax), Absent, Absent)
    ELSE LogRec(R_NODE, r.url, 0, o.err, Absent, Absent, Absent)

\* the handler answering a thrown fetch with a bare 502
RootResponse_Bare502(i, o) ==
    IF o.kind = "reply" THEN Response(i, o.status, o.text)
    ELSE Response(i, 502, <<"Bad Gateway">>)

RootResponse(i, o) ==
    IF o.kind = "reply" THEN Response(i, o.status, o.text)
    ELSE Response(i, 500, JsonError(o.err))

RootBegin ==
    /\ Len(reqs) < MaxRequests
    /\ Answers(RootPath, 1) = L_ROUTES
    /\ IssueFetch(R_ROOT, Absent, Absent, RootUrl, PROXMOX_TOKEN, AuthHeader)
    /\ ConfigUnchanged

RootResume(i, o, writeOk) ==
    /\ Awaiting(i, R_ROOT)
    /\ Finish(i, RootLog(reqs[i], o), RootResponse(i, o), writeOk)
    /\ ConfigUnchanged

\* the handler answers at once, with no outbound call
AnswerNow(route, url, key, obj, res, writeOk) ==
    /\ logFile' = appendLog(logFile, obj, writeOk)
    /\ warned' = appendLogWarns(warned, writeOk)
    /\ sent' = Append(sent, res)
    /\ reqs' = Append(reqs, Request(route, Absent, Absent, url, key, "done"))
    /\ UNCHANGED fetches

\* body !== null after try { body = JSON.parse(text) } catch
FeedBodyParsed(text) == JsonParses(text) /\ ~ParsesToNull(text)

\* --- GET /api/podman/containers
PodmanTarget(key) ==
    <<"http://192.168.0.220:9191/", "?", "key=">> \o encodeURIComponent(key)

PodmanMissing == <<"PODBROADCAST_API_KEY not configured">>

PodmanLog(r, o) ==
    IF o.kind = "reply"
    THEN LogRec(R_PODMAN, ScrubParam(r.url, "key="), o.status, Absent,
                Slice0(o.text, SnippetMax), Absent, Absent)
    ELSE LogRec(R_PODMAN, r.url, 0, o.err, Absent, Absent, Absent)

PodmanResponse(i, o) ==
    IF o.kind = "throw" THEN Response(i, 500, JsonError(o.err))
    ELSE IF FeedBodyParsed(o.text) THEN Response(i, 200, JsonRoundTrip(o.text))
    ELSE Response(i, StatusOr502(o.status), o.text)

\* the handler with the missing-key answer sent but not logged
PodmanBegin_Unlogged(key, writeOk) ==
    /\ Len(reqs) < MaxRequests
    /\ IF key = NoKey
       THEN /\ sent' = Append(sent, Response(Len(reqs) + 1, 503, JsonError(PodmanMissing)))
            /\ reqs' = Append(reqs, Request(R_PODMAN, Absent, Absent, PodmanTarget(key),
                                            key, "done"))
            /\ UNCHANGED <<logFile, warned, fetches>>
       ELSE /\ writeOk
            /\ IssueFetch(R_PODMAN, Absent, Absent, PodmanTarget(key), key, Absent)
    /\ ConfigUnchanged

\* key: process.env.PODBROADCAST_API_KEY || null, read per request
PodmanBegin(key, writeOk) ==
    /\ Len(reqs) < MaxRequests
    /\ Answers(PodmanPath, 1) = L_ROUTES
    /\ IF key = NoKey
       THEN AnswerNow(R_PODMAN, PodmanTarget(key), key,
                      LogRec(R_PODMAN, Absent, 0, PodmanMissing, Absent, Absent, Absent),
                      Response(Len(reqs) + 1, 503, JsonError(PodmanMissing)), writeOk)
       ELSE /\ writeOk
            /\ IssueFetch(R_PODMAN, Absent, Absent, PodmanTarget(key), key, Absent)
    /\ ConfigUnchanged

PodmanResume(i, o, writeOk) ==
    /\ Awaiting(i, R_PODMAN)
    /\ Finish(i, PodmanLog(reqs[i], o), PodmanResponse(i, o), writeOk)
    /\ ConfigUnchanged

\* --- GET /api/tautulli/now_playing
TAUTULLI_HOST == "192.168.0.234:8181"

TautulliTarget(key) ==
    <<"http://", TAUTULLI_HOST, "/api/v2", "?", "apikey=">> \o encodeURIComponent(key)
        \o <<"&", "cmd=get_activity">>

TautulliMissing == <<"TAUTULLI_API_KEY not configured">>

TautulliLog(r, o) ==
    IF o.kind = "reply"
    THEN LogRec(R_TAUTULLI, ScrubParam(r.url, "apikey="), o.status, Absent,
                Slice0(o.text, SnippetMax), Absent, Absent)
    ELSE LogRec(R_TAUTULLI, r.url, 0, o.err, Absent, Absent, Absent)

TautulliResponse(i, o) ==
    IF o.kind = "throw" THEN Response(i, 500, JsonError(o.err))
    ELSE IF FeedBodyParsed(o.text) THEN Response(i, 200, JsonRoundTrip(o.text))
    ELSE Response(i, StatusOr502(o.status), o.text)

\* the handler without its missing-key check
TautulliBegin_Unguarded(key, writeOk) ==
    /\ Len(reqs) < MaxRequests
    /\ writeOk
    /\ IssueFetch(R_TAUTULLI, Absent, Absent, TautulliTarget(key), key, Absent)
    /\ ConfigUnchanged

\* key: process.env.TAUTULLI_API_KEY || null, read per request
TautulliBegin(key, writeOk) ==
    /\ Len(reqs) < MaxRequests
    /\ Answers(TautulliPath, 1) = L_ROUTES
    /\ IF key = NoKey
       THEN AnswerNow(R_TAUTULLI, Absent, key,
                      LogRec(R_TAUTULLI, Absent, 0, TautulliMissing, Absent, Absent, Absent),
                      Response(Len(reqs) + 1, 503, JsonError(TautulliMissing)), writeOk)
       ELSE /\ writeOk
            /\ IssueFetch(R_TAUTULLI, Absent, Absent, TautulliTarget(key), key, Absent)
    /\ ConfigUnchanged

TautulliResume(i, o, writeOk) ==
    /\ Awaiting(i, R_TAUTULLI)
    /\ Finish(i, TautulliLog(reqs[i], o), TautulliResponse(i, o), writeOk)
    /\ ConfigUnchanged

\* --- GET /env.js
\* JSON.stringify of an object given as <<name, value>> pairs; a null value is <<>>
RECURSIVE JsonFields(_)
JsonFields(pairs) ==
    IF pairs = <<>> THEN <<>>
    ELSE LET p == Head(pairs)
             v == IF p[2] = <<>> THEN <<"null">> ELSE <<"\"">> \o p[2] \o <<"\"">>
         IN  <<p[1], ":">> \o v
                \o (IF Tail(pairs) = <<>> THEN <<>> ELSE <<",">> \o JsonFields(Tail(pairs)))

JsonObject(pairs) == <<"{">> \o JsonFields(pairs) \o <<"}">>

\* the payload with a credential of the environment added to it
EnvPayload_WithKey(env) ==
    << <<"PROXMOX_CLIENT_API_BASE", env.PROXMOX_CLIENT_API_BASE>>,
       <<"AI_ADDRESS", env.AI_ADDRESS>>,
       <<"TAUTULLI_API_KEY", env.TAUTULLI_API_KEY>> >>

\* env: the process environment as the handler reads it
EnvPayload(env) ==
    LET clientBase == IF env.PROXMOX_CLIENT_API_BASE # <<>>
                      THEN env.PROXMOX_CLIENT_API_BASE
                      ELSE <<"/api/proxmox">>
        aiAddr == env.AI_ADDRESS
    IN  << <<"PROXMOX_CLIENT_API_BASE", clientBase>>, <<"AI_ADDRESS", aiAddr>> >>

EnvJsBody(env) == <<"window.HOMIE_ENV = ">> \o JsonObject(EnvPayload(env)) \o <<";">>

EnvJs(env) ==
    /\ Len(reqs) < MaxRequests
    /\ Answers(P_ENVJS, 1) = L_ENV
    /\ sent' = Append(sent, Response(Len(reqs) + 1, 200, EnvJsBody(env)))
    /\ reqs' = Append(reqs, Request(R_ENV, Absent, Absent, Absent, Absent, "done"))
    /\ UNCHANGED <<logFile, warned, fetches>>
    /\ ConfigUnchanged

\* --- GET of a path no route matches: the middleware, then express.static
Forbidden == <<"Forbidden">>
FileBody(path) == <<"contents of ">> \o path
NotFound == <<"Cannot GET ">>

\* the request is recorded under the layer that answered it, its url the path
Get(path) ==
    /\ Len(reqs) < MaxRequests
    /\ LET layer == Answers(path, 1)
           res == CASE layer = L_BLOCK -> Response(Len(reqs) + 1, 403, Forbidden)
                    [] layer = L_STATIC -> Response(Len(reqs) + 1, 200, FileBody(path))
                    [] OTHER -> Response(Len(reqs) + 1, 404, NotFound \o path)
       IN  /\ sent' = Append(sent, res)
           /\ reqs' = Append(reqs, Request(layer, Absent, Absent, path, Absent, "done"))
    /\ UNCHANGED <<logFile, warned, fetches>>
    /\ ConfigUnchanged

\* ------------------------------------------------------------ the server
Tokens == {NoKey, <<"t">>}
ClientBases == {<<>>, <<"/proxy">>}
AiAddresses == {<<>>, <<"https://ajgpt.duckdns.org">>}

\* the environments /env.js is served under
Envs == [PROXMOX_CLIENT_API_BASE : ClientBases, AI_ADDRESS : AiAddresses,
         PODBROADCAST_API_KEY : {<<"s">>}, TAUTULLI_API_KEY : {NoKey, <<"=">>}]

ServerInit ==
    /\ LOGGING_ENABLED \in BOOLEAN
    /\ PROXMOX_TOKEN \in Tokens
    /\ logFile = <<>>
    /\ warned = 0
    /\ reqs = <<>>
    /\ fetches = <<>>
    /\ sent = <<>>

ReqIds == 1..Len(reqs)

ServerNext ==
    \/ \E node \in NodeParams : NodeStatusBegin(node)
    \/ \E i \in ReqIds : \E o \in Outcomes(PassthroughTexts, reqs[i].url) :
          \E w \in WriteResults : NodeStatusResume(i, o, w)
    \/ \E vmid \in VmidParams, q \in NodeQueries : VmOnlineBegin(vmid, q)
    \/ \E i \in ReqIds : \E o \in Outcomes(VmTexts, reqs[i].url) :
          \E w \in WriteResults : VmOnlineResume(i, o, w)
    \/ RootBegin
    \/ \E i \in ReqIds : \E o \in Outcomes(PassthroughTexts, reqs[i].url) :
          \E w \in WriteResults : RootResume(i, o, w)
    \/ \E key \in Keys : \E w \in WriteResults : PodmanBegin(key, w)
    \/ \E i \in ReqIds : \E o \in Outcomes(FeedTexts, reqs[i].url) :
          \E w \in WriteResults : PodmanResume(i, o, w)
    \/ \E key \in Keys : \E w \in WriteResults : TautulliBegin(key, w)
    \/ \E i \in ReqIds : \E o \in Outcomes(FeedTexts, reqs[i].url) :
          \E w \in WriteResults : TautulliResume(i, o, w)
    \/ \E env \in Envs : EnvJs(env)
    \/ \E path \in OtherPaths : Get(path)


\* --------------------------------------------------------------- src/app.js
NODES == <<"pve-master", "pve-gamehost", "pve-mac">>
VmIds == {"108"}
Cards == {NODES[i] : i \in 1..Len(NODES)} \cup {"podman", "tautulli"}
            \cup {"vm-" \o v : v \in VmIds}

\* setInterval(fn, ms): a new entry of the interval table, its index the id returned
Timer(src, ms) == [src |-> src, ms |-> ms, active |-> TRUE]
setInterval(table, src, ms) == Append(table, Timer(src, ms))
\* clearInterval(id)
clearInterval(table, id) ==
    IF id \in DOMAIN table THEN [table EXCEPT ![id].active = FALSE] ELSE table

\* an invocation of pollOnce, pollPodmanOnce, pollTautulliOnce or once, suspended at
\* its await fetch; idx is the position in NODES for pollOnce, 1 otherwise; behind
\* records the cards a later invocation of the same source has written since
\* (no handler reads it: it keeps the order in which the invocations render)
Tick(src, idx) == [src |-> src, idx |-> idx, behind |-> {}]

RemoveAt(seq, k) == SubSeq(seq, 1, k - 1) \o SubSeq(seq, k + 1, Len(seq))

\* --- JSON values as the page reads them: every value carries its type t
JNull == [t |-> "null"]
JUndefined == [t |-> "undefined"]
\* a string is the sequence of its characters
JStr(x) == [t |-> "string", s |-> x]
T_42 == <<"4", "2">>
T_error == <<"e", "r", "r", "o", "r">>
T_n_a == <<"n", "/", "a">>
T_none == <<"n", "o", "n", "e">>
T_offline == <<"o", "f", "f", "l", "i", "n", "e">>
T_online == <<"o", "n", "l", "i", "n", "e">>
JBool(b) == [t |-> "boolean", b |-> b]
\* numbers are fixed-point: the integer n stands for n / Scale
Scale == 100
JNum(n) == [t |-> "number", n |-> n]
JArr(items) == [t |-> "array", items |-> items]
\* an object: its own properties, name by name
JObj(names, val(_)) == [t |-> "object", names |-> names, f |-> [n \in names |-> val(n)]]
JEmpty == [t |-> "object", names |-> {}, f |-> <<>>]
\* the object with the properties of rec that are not undefined
Obj(rec) ==
    LET names == {n \in DOMAIN rec : rec[n].t # "undefined"}
    IN  [t |-> "object", names |-> names, f |-> [n \in names |-> rec[n]]]

\* v.name; the values drawn are never null or undefined where the code reads through
Prop(v, name) ==
    IF v.t = "object" /\ name \in v.names THEN v.f[name] ELSE JUndefined
Truthy(v) ==
    \/ v.t \in {"object", "array"}
    \/ v.t = "string" /\ v.s # <<>>
    \/ v.t = "number" /\ v.n # 0
    \/ v.t = "boolean" /\ v.b
IsArray(v) == v.t = "array"
\* v == null
Nullish(v) == v.t \in {"null", "undefined"}
\* a ?? b
Coalesce(a, b) == IF Nullish(a) THEN b ELSE a
\* a === b
StrictEq(a, b) == a.t = b.t /\ a = b
\* the number an operand of * or - converts to: null is 0
ToNumber(v) == IF v.t = "number" THEN v.n ELSE 0

\* --- the results a fetch wrapper hands to its renderer
Num(n) == <<n>>
Null == <<>>
FetchFailure == <<"Error: HTTP 500">>

\* out of fetchNodeStatus when the fetch fails or answers a non-2xx status
NodeFailed == [ok |-> FALSE, online |-> JUndefined, cpu |-> Null, memPct |-> Null,
               mem |-> Null, error |-> FetchFailure]
\* out when reading json.data throws on a null payload
NodeThrew == [ok |-> FALSE, online |-> JUndefined, cpu |-> Null, memPct |-> Null,
              mem |-> Null,
              error |-> <<"TypeError: Cannot read properties of null (reading 'data')">>]

\* what await fetch(node.url) and res.json() hand to fetchNodeStatus
NodeReply(json) == [ok |-> TRUE, json |-> json]
HttpFailure == [ok |-> FALSE, json |-> JNull]

\* const data = json.data || json
nodeData(json) == IF Truthy(Prop(json, "data")) THEN Prop(json, "data") ELSE json

\* data.cpu * 100, else data.cpu_usage, else null
nodeCpu_Unscaled(data) ==
    IF Prop(data, "cpu").t # "undefined" THEN JNum(ToNumber(Prop(data, "cpu")))
    ELSE IF Prop(data, "cpu_usage").t # "undefined" THEN Prop(data, "cpu_usage")
    ELSE JNull

nodeCpu(data) ==
    IF Prop(data, "cpu").t # "undefined" THEN JNum(ToNumber(Prop(data, "cpu")) * 100)
    ELSE IF Prop(data, "cpu_usage").t # "undefined" THEN Prop(data, "cpu_usage")
    ELSE JNull

\* memUsed and memTotal of app.js:145-156
nodeMemTotal(data) ==
    LET memory == Prop(data, "memory")
    IN  IF Truthy(memory) /\ memory.t \in {"object", "array"}
        THEN Coalesce(Prop(memory, "total"), JNull)
        ELSE Coalesce(Prop(data, "mem_total"), Coalesce(Prop(data, "memory_total"), JNull))

\* memUsed without the fallback of app.js:150-152
nodeMemUsed_NoFallback(data) ==
    LET memory == Prop(data, "memory")
    IN  IF Truthy(memory) /\ memory.t \in {"object", "array"}
        THEN Coalesce(Prop(memory, "used"), JNull)
        ELSE Coalesce(Prop(data, "mem_used"), Coalesce(Prop(data, "memory_used"), JNull))

nodeMemUsed(data) ==
    LET memory == Prop(data, "memory")
    IN  IF Truthy(memory) /\ memory.t \in {"object", "array"}
        THEN LET used == Coalesce(Prop(memory, "used"), JNull)
             IN  IF /\ Nullish(used)
                    /\ ~Nullish(Prop(memory, "free"))
                    /\ ~Nullish(Prop(memory, "total"))
                 THEN JNum(ToNumber(Prop(memory, "total")) - ToNumber(Prop(memory, "free")))
                 ELSE used
        ELSE Coalesce(Prop(data, "mem_used"), Coalesce(Prop(data, "memory_used"), JNull))

\* the status string consulted before the online field
nodeOnline_StatusFirst(data) ==
    IF Truthy(Prop(data, "status"))
    THEN JBool(StrictEq(Prop(data, "status"), JStr(T_online)))
    ELSE IF Prop(data, "online").t # "undefined" THEN Prop(data, "online")
    ELSE JBool(TRUE)

\* data.online, else data.status === 'online', else true
nodeOnline(data) ==
    IF Prop(data, "online").t # "undefined" THEN Prop(data, "online")
    ELSE IF Truthy(Prop(data, "status"))
    THEN JBool(StrictEq(Prop(data, "status"), JStr(T_online)))
    ELSE JBool(TRUE)

\* the normalised record; memPct is (memUsed / memTotal) * 100
fetchNodeStatus(res) ==
    IF ~res.ok THEN NodeFailed
    ELSE IF Nullish(res.json) THEN NodeThrew
    ELSE LET data == nodeData(res.json)
             cpu == nodeCpu(data)
             memUsed == nodeMemUsed(data)
             memTotal == nodeMemTotal(data)
             hasMem == ~Nullish(memUsed) /\ Truthy(memTotal)
         IN  [ok |-> TRUE,
              online |-> nodeOnline(data),
              cpu |-> IF cpu.t = "number" THEN Num(Min(100 * Scale, cpu.n)) ELSE Null,
              memPct |-> IF hasMem
                         THEN Num((ToNumber(memUsed) * 100 * Scale) \div ToNumber(memTotal))
                         ELSE Null,
              mem |-> IF hasMem
                      THEN <<[used |-> ToNumber(memUsed), total |-> ToNumber(memTotal)]>>
                      ELSE Null,
              error |-> Null]

\* a node at a quarter of its cpu and half of its 16 GiB, and one that reports
\* no memory
PayloadOnline ==
    Obj([data |-> Obj([cpu |-> JNum(25), status |-> JStr(T_online),
                       memory |-> Obj([used |-> JNum(8 * Scale),
                                       total |-> JNum(16 * Scale)])])])
PayloadNoMemory == Obj([data |-> Obj([cpu |-> JNum(25)])])
NodeOnline == fetchNodeStatus(NodeReply(PayloadOnline))
NodeResults ==
    {fetchNodeStatus(res) : res \in {HttpFailure, NodeReply(PayloadOnline),
                                     NodeReply(PayloadNoMemory)}}

\* the placeholder character U+2014
EmDash == "&mdash;"

\* v.toFixed(1)
Fixed1(n) ==
    LET a == IF n < 0 THEN 0 - n ELSE n
        tenths == (a * 10 + Scale \div 2) \div Scale
    IN  (IF n < 0 THEN <<"-">> ELSE <<>>)
            \o <<ToString(tenths \div 10), ".", ToString(tenths % 10)>>
formatPct(v) == IF v # Null THEN Fixed1(v[1]) \o <<"%">> ELSE <<EmDash>>
\* Math.max(0, Math.min(100, n))
Clamp100(n) == IF n < 0 THEN 0 ELSE IF n > 100 * Scale THEN 100 * Scale ELSE n

\* memory is counted in GiB: x / (1024 ** 3) is x
updateNodeUI(result) ==
    IF ~result.ok
    THEN [status |-> "Offline", className |-> "text-red-500", cpuVal |-> <<EmDash>>,
          memVal |-> <<EmDash>>, cpuBar |-> 0, memBar |-> 0]
    ELSE [status |-> IF Truthy(result.online) THEN "Online" ELSE "Offline",
          className |-> IF Truthy(result.online) THEN "text-green-500" ELSE "text-red-500",
          cpuVal |-> IF result.cpu # Null THEN formatPct(result.cpu) ELSE <<EmDash>>,
          cpuBar |-> IF result.cpu # Null THEN Clamp100(result.cpu[1]) ELSE 0,
          memVal |-> IF result.memPct # Null /\ result.mem # Null
                     THEN formatPct(result.memPct) \o <<" (">> \o Fixed1(result.mem[1].used)
                            \o <<" GB / ">> \o Fixed1(result.mem[1].total) \o <<" GB)">>
                     ELSE <<>>,
          memBar |-> IF result.memPct # Null /\ result.mem # Null
                     THEN Clamp100(result.memPct[1]) ELSE 0]

\* root.innerHTML = '' leaving what was there
innerHTMLCleared_Kept(root) == root

\* root.innerHTML = ''
innerHTMLCleared(root) == <<>>

\* a feed's root after a renderer cleared it and appended elements
renderOnto(root, elements) == innerHTMLCleared(root) \o elements

\* the elements appended to a feed's root: [className, textContent]
El(cls, text) == [className |-> cls, text |-> text]
ErrorCls == "col-span-1 p-3 rounded-lg bg-gray-50 dark:bg-gray-900 text-sm text-red-500"

\* --- the text operations the container cards use
Uppers == <<"A", "B", "C", "D", "E", "F", "G", "H", "I", "J", "K", "L", "M",
            "N", "O", "P", "Q", "R", "S", "T", "U", "V", "W", "X", "Y", "Z">>
Lowers == <<"a", "b", "c", "d", "e", "f", "g", "h", "i", "j", "k", "l", "m",
            "n", "o", "p", "q", "r", "s", "t", "u", "v", "w", "x", "y", "z">>
toLowerChar(ch) ==
    IF \E i \in DOMAIN Uppers : Uppers[i] = ch
    THEN Lowers[CHOOSE i \in DOMAIN Uppers : Uppers[i] = ch]
    ELSE ch
toLowerCase(s) == [i \in 1..Len(s) |-> toLowerChar(s[i])]

\* the characters \s matches among those drawn
Whitespace == {" "}

\* s.trim()
RECURSIVE trimStart(_)
trimStart(s) ==
    IF Len(s) > 0 /\ s[1] \in Whitespace THEN trimStart(Tail(s)) ELSE s
RECURSIVE trimEnd(_)
trimEnd(s) ==
    IF Len(s) > 0 /\ s[Len(s)] \in Whitespace THEN trimEnd(SubSeq(s, 1, Len(s) - 1)) ELSE s
trim(s) == trimEnd(trimStart(s))

\* s.match(/Up\s+[^()]*/i): m[0] of the leftmost match, <<>> for null. The match
\* starts at the first "up" (in either case) that whitespace follows and runs to
\* the end or to the character before the first parenthesis
matchUp(s) ==
    LET starts == {i \in 1..(Len(s) - 2) :
                      /\ toLowerChar(s[i]) = "u"
                      /\ toLowerChar(s[i + 1]) = "p"
                      /\ s[i + 2] \in Whitespace}
    IN  IF starts = {} THEN <<>>
        ELSE LET i == CHOOSE x \in starts : \A y \in starts : x <= y
                 parens == {j \in (i + 3)..Len(s) : s[j] \in {"(", ")"}}
                 stop == IF parens = {} THEN Len(s)
                         ELSE (CHOOSE x \in parens : \A y \in parens : x <= y) - 1
             IN  SubSeq(s, i, stop)

\* --- a container card
UP_3_HOURS == <<"U", "p", " ", "3", " ", "h", "o", "u", "r", "s">>
T_running == <<"r", "u", "n", "n", "i", "n", "g">>
T_container == <<"c", "o", "n", "t", "a", "i", "n", "e", "r">>

\* a || b
Or(a, b) == IF Truthy(a) THEN a ELSE b

displayName(c) ==
    IF IsArray(Prop(c, "Names")) /\ Len(Prop(c, "Names").items) > 0
    THEN Prop(c, "Names").items[1]
    ELSE Or(Prop(c, "Name"), Or(Prop(c, "Names"), Or(Prop(c, "Id"), JStr(T_container))))

\* running by State alone
isRunning_StateOnly(c) == StrictEq(Prop(c, "State"), JStr(T_running))

isRunning(c) ==
    \/ StrictEq(Prop(c, "State"), JStr(T_running))
    \/ /\ Truthy(Prop(c, "Status"))
       /\ Contains(toLowerCase(Prop(c, "Status").s), <<"u", "p">>)
    \/ StrictEq(Prop(c, "Online"), JBool(TRUE))
    \/ StrictEq(Prop(c, "ExitCode"), JNum(0)) /\ ~Truthy(Prop(c, "Exited"))

\* c.Status.toLowerCase is reached with a Status that has no such method, or c
\* itself is null
containerThrows(c) ==
    \/ Nullish(c)
    \/ /\ ~StrictEq(Prop(c, "State"), JStr(T_running))
       /\ Truthy(Prop(c, "Status"))
       /\ Prop(c, "Status").t # "string"

startedAt(c) ==
    Or(Prop(c, "StartedAt"), Or(Prop(c, "Started"), Or(Prop(c, "CreatedAt"), JNull)))

\* `${v}` of a string, and of another value by its type
Interpolate(v) == IF v.t = "string" THEN v.s ELSE <<"[", v.t, "]">>

\* the uptime line showing Status whole
uptimeText_WholeStatus(c) ==
    IF Truthy(Prop(c, "Status")) /\ Prop(c, "Status").t = "string"
    THEN Prop(c, "Status").s
    ELSE IF Truthy(startedAt(c)) THEN Interpolate(startedAt(c))
    ELSE <<EmDash>>

uptimeText(c) ==
    IF Truthy(Prop(c, "Status")) /\ Prop(c, "Status").t = "string"
    THEN IF matchUp(Prop(c, "Status").s) # <<>>
         THEN trim(matchUp(Prop(c, "Status").s))
         ELSE Prop(c, "Status").s
    ELSE IF Truthy(startedAt(c)) THEN Interpolate(startedAt(c))
    ELSE <<EmDash>>

\* the card appended for c: title, status line and uptime line
ContainerCard(c) ==
    [className |-> "rounded-lg p-4 bg-gray-50 dark:bg-gray-900",
     title |-> Interpolate(displayName(c)),
     statusVal |-> IF isRunning(c) THEN "Online" ELSE "Offline",
     statusCls |-> IF isRunning(c) THEN "text-green-500" ELSE "text-red-500",
     uptime |-> uptimeText(c),
     text |-> Interpolate(displayName(c)) \o <<"Status: ">>
                \o <<IF isRunning(c) THEN "Online" ELSE "Offline">> \o uptimeText(c)]

NotArray == Obj([error |-> JStr(T_error)])
PodmanFailed == [ok |-> FALSE, data |-> JUndefined, error |-> FetchFailure]

\* forEach stops at the first container that throws, the cards before it appended
RECURSIVE cardsUntilThrow(_)
cardsUntilThrow(items) ==
    IF Len(items) = 0 \/ containerThrows(items[1]) THEN <<>>
    ELSE <<ContainerCard(items[1])>> \o cardsUntilThrow(Tail(items))

\* the children of #podman-containers when renderPodmanContainers is left
renderPodmanContainers(containers) ==
    IF ~IsArray(containers)
    THEN <<El("col-span-1 p-4 rounded-lg bg-gray-50 dark:bg-gray-900",
              <<"Unexpected response format">>)>>
    ELSE cardsUntilThrow(containers.items)

\* renderPodmanContainers is left by an exception
renderPodmanContainersThrows(containers) ==
    /\ IsArray(containers)
    /\ \E k \in DOMAIN containers.items : containerThrows(containers.items[k])

\* the lists a poll tick is handed: none, one running container, one stopped
C_WEB == Obj([Names |-> JArr(<<JStr(<<"w", "e", "b">>)>>), State |-> JStr(T_running),
              Status |-> JStr(<<"U", "p", " ", "3", " ", "h", "o", "u", "r", "s">>)])
C_DB == Obj([Name |-> JStr(<<"d", "b">>), State |-> JStr(<<"e", "x", "i", "t", "e", "d">>)])
PodmanResults ==
    {PodmanFailed} \cup
    [ok : {TRUE}, data : {NotArray, JArr(<<>>), JArr(<<C_WEB, C_DB>>)}, error : {Null}]

\* the catch of pollPodmanOnce leaving the list empty
pollPodmanOnceRender_Silent(res) ==
    IF ~res.ok
    THEN <<>>
    ELSE renderPodmanContainers(res.data)

pollPodmanOnceRender(res) ==
    IF ~res.ok
    THEN <<El(ErrorCls, <<"Error fetching podman containers: ">> \o res.error)>>
    ELSE renderPodmanContainers(res.data)

\* a session of the activity list: "" for a field it does not have
Session(title, username, player, progress) ==
    [title |-> title, username |-> username, player |-> player, progress |-> progress,
     view_offset |-> JUndefined, duration |-> JUndefined]
\* the same session reporting its position instead
Playing(s, view_offset, duration) ==
    [s EXCEPT !.view_offset = view_offset, !.duration = duration]
S_A == Session("Movie A", "alice", "Roku", JNum(10 * Scale))
S_B == Session("", "", "", JUndefined)
SessionLists == {<<>>, <<S_A, S_B>>, <<S_B, S_A>>}

\* the four nestings of a session list, as the proxy may deliver them
ShapeSessions(list) == JObj({"sessions"}, LAMBDA n : JArr(list))
ShapeResponseData(list) ==
    JObj({"response"}, LAMBDA n : JObj({"data"}, LAMBDA m : JArr(list)))
ShapeResponseDataSessions(list) ==
    JObj({"response"}, LAMBDA n : JObj({"data"}, LAMBDA m : ShapeSessions(list)))
ShapeDataSessions(list) == JObj({"data"}, LAMBDA n : ShapeSessions(list))
Shapes(list) ==
    {ShapeSessions(list), ShapeResponseData(list), ShapeResponseDataSessions(list),
     ShapeDataSessions(list)}

\* payloads with no session list: null, {}, and sessions that is not an array
Malformed == {JNull, JEmpty, JObj({"sessions"}, LAMBDA n : JStr(T_none))}

TautulliPayloads == UNION {Shapes(list) : list \in SessionLists} \cup Malformed

TautulliFailed == [ok |-> FALSE, data |-> JNull, error |-> FetchFailure]
TautulliResults == {TautulliFailed} \cup [ok : {TRUE}, data : TautulliPayloads, error : {Null}]

NoStreams ==
    El("col-span-1 p-4 rounded-lg bg-gray-50 dark:bg-gray-900 text-sm text-gray-600 dark:text-gray-300",
       <<"No active streams right now.">>)

\* the card of one session: title, who, device and progress line
\* `${n}` of a number
NumberText(n) ==
    LET a == IF n < 0 THEN 0 - n ELSE n
        f == a % Scale
    IN  (IF n < 0 THEN "-" ELSE "") \o ToString(a \div Scale) \o
        (IF f = 0 THEN ""
         ELSE IF f % 10 = 0 THEN "." \o ToString(f \div 10)
         ELSE IF f < 10 THEN ".0" \o ToString(f)
         ELSE "." \o ToString(f))
\* `${v}` of the values a progress field holds
TemplateText(v) ==
    CASE v.t = "number" -> NumberText(v.n)
      [] v.t = "null" -> "null"
      [] OTHER -> "undefined"
\* Math.round((x / y) * 100): the nearest whole number, a half going up
roundPercent(x, y) ==
    IF y > 0 THEN (200 * x + y) \div (2 * y)
    ELSE (200 * (0 - x) + (0 - y)) \div (2 * (0 - y))
\* s.progress !== undefined ? `${s.progress}%`
\*     : (s.view_offset && s.duration ? `${Math.round(...)}%` : '—')
progressText(s) ==
    IF s.progress.t # "undefined" THEN TemplateText(s.progress) \o "%"
    ELSE IF Truthy(s.view_offset) /\ Truthy(s.duration)
         THEN ToString(roundPercent(ToNumber(s.view_offset), ToNumber(s.duration))) \o "%"
         ELSE EmDash

SessionCard(s) ==
    El("rounded-lg p-4 bg-gray-50 dark:bg-gray-900",
       <<IF s.title # "" THEN s.title ELSE "Stream",
         IF s.username # "" THEN s.username ELSE "Unknown User",
         s.player,
         "Progress: ", progressText(s)>>)

\* the session list renderTautulli finds in data
sessionsOf(data) ==
    LET d == IF ~Truthy(data) THEN JEmpty ELSE data
    IN  IF IsArray(Prop(d, "sessions")) THEN Prop(d, "sessions").items
        ELSE IF Truthy(Prop(d, "response")) /\ IsArray(Prop(Prop(d, "response"), "data"))
        THEN Prop(Prop(d, "response"), "data").items
        ELSE IF /\ Truthy(Prop(d, "response"))
                /\ Truthy(Prop(Prop(d, "response"), "data"))
                /\ IsArray(Prop(Prop(Prop(d, "response"), "data"), "sessions"))
        THEN Prop(Prop(Prop(d, "response"), "data"), "sessions").items
        ELSE IF Truthy(Prop(d, "data")) /\ IsArray(Prop(Prop(d, "data"), "sessions"))
        THEN Prop(Prop(d, "data"), "sessions").items
        ELSE <<>>

renderTautulli(data) ==
    LET sessions == sessionsOf(data)
    IN  IF Len(sessions) = 0 THEN <<NoStreams>>
        ELSE [k \in 1..Len(sessions) |-> SessionCard(sessions[k])]

\* payload = res.data; if (payload && payload.response && payload.response.data) ...
unwrap(payload) ==
    IF /\ Truthy(payload)
       /\ Truthy(Prop(payload, "response"))
       /\ Truthy(Prop(Prop(payload, "response"), "data"))
    THEN Prop(Prop(payload, "response"), "data")
    ELSE payload

pollTautulliOnceRender(res) ==
    IF ~res.ok
    THEN <<El(ErrorCls, <<"Error fetching streaming info: ">> \o res.error)>>
    ELSE renderTautulli(unwrap(res.data))

setVmStatus(online, statusText) ==
    [status |-> IF online THEN "Online" ELSE "Offline",
     className |-> IF online THEN "text-green-500" ELSE "text-red-500",
     title |-> statusText]

\* what once() of pollVmOnline learns: the fetch failed, or the JSON answer j
VmFailed == [ok |-> FALSE, online |-> FALSE, status |-> <<>>, error |-> FetchFailure]
VmResults == {VmFailed} \cup
    [ok : {TRUE}, online : BOOLEAN, status : {<<>>, <<"running">>}, error : {Null}]

onceRender(res) ==
    IF ~res.ok THEN setVmStatus(FALSE, res.error)
    ELSE setVmStatus(res.online,
                     IF res.status # <<>> THEN res.status
                     ELSE IF res.online THEN <<"running">> ELSE <<"stopped">>)

\* what index.html serves, before any tick has rendered
InitialNodeCard == [status |-> "as served", className |-> "", cpuVal |-> <<>>,
                    memVal |-> <<>>, cpuBar |-> 0, memBar |-> 0]
InitialFeed == <<El("as served", <<>>)>>
InitialVmCard == [status |-> "as served", className |-> "", title |-> <<>>]

InitialDisplay ==
    [c \in Cards |->
        IF c \in {"podman", "tautulli"} THEN InitialFeed
        ELSE IF c \in {NODES[i] : i \in 1..Len(NODES)} THEN InitialNodeCard
        ELSE InitialVmCard]

TimersUnchanged == UNCHANGED <<pollTimer, podmanTimer, tautulliTimer, timers>>
\* the pollers touch nothing of the server, nor of the chat box
ServerUnchanged == UNCHANGED <<serverVars, pureVars>>

\* --- the node poller
startPolling ==
    /\ IF pollTimer # 0
       THEN UNCHANGED <<pollTimer, timers, ticks>>
       ELSE /\ Len(timers) < MaxTimers
            /\ Len(ticks) < MaxInFlight
            /\ ticks' = Append(ticks, Tick("nodes", 1))
            /\ timers' = setInterval(timers, "nodes", POLL_INTERVAL)
            /\ pollTimer' = Len(timers) + 1
    /\ UNCHANGED <<podmanTimer, tautulliTimer, display, hung>>
    /\ ServerUnchanged

\* stopPolling forgetting the handle without clearInterval
stopPolling_NoClear ==
    /\ pollTimer' = 0
    /\ UNCHANGED <<timers, podmanTimer, tautulliTimer, ticks, display, hung>>
    /\ ServerUnchanged

stopPolling ==
    /\ IF pollTimer = 0
       THEN UNCHANGED <<pollTimer, timers>>
       ELSE /\ timers' = clearInterval(timers, pollTimer)
            /\ pollTimer' = 0
    /\ UNCHANGED <<podmanTimer, tautulliTimer, ticks, display, hung>>
    /\ ServerUnchanged

\* invocation k has written card: the earlier invocations of its source that are
\* still suspended are behind on that card
Overtaken(list, k, card) ==
    [j \in DOMAIN list |->
        IF j < k /\ list[j].src = list[k].src
        THEN [list[j] EXCEPT !.behind = @ \cup {card}]
        ELSE list[j]]

\* pollOnce resumes after await fetchNodeStatus(node): it renders the node's card and
\* goes on to the next node, or returns after the last
NodeFetchDone(k, result) ==
    /\ ticks[k].src = "nodes"
    /\ NODES[ticks[k].idx] \notin hung
    /\ display' = [display EXCEPT ![NODES[ticks[k].idx]] = updateNodeUI(result)]
    /\ ticks' = IF ticks[k].idx < Len(NODES)
                THEN [Overtaken(ticks, k, NODES[ticks[k].idx]) EXCEPT ![k].idx = ticks[k].idx + 1]
                ELSE RemoveAt(Overtaken(ticks, k, NODES[ticks[k].idx]), k)
    /\ TimersUnchanged
    /\ UNCHANGED hung
    /\ ServerUnchanged

\* --- the container poller
startPodmanPolling ==
    /\ IF podmanTimer # 0
       THEN UNCHANGED <<podmanTimer, timers, ticks>>
       ELSE /\ Len(timers) < MaxTimers
            /\ Len(ticks) < MaxInFlight
            /\ ticks' = Append(ticks, Tick("podman", 1))
            /\ timers' = setInterval(timers, "podman", PODMAN_INTERVAL)
            /\ podmanTimer' = Len(timers) + 1
    /\ UNCHANGED <<pollTimer, tautulliTimer, display, hung>>
    /\ ServerUnchanged

PodmanFetchDone(k, res) ==
    /\ ticks[k].src = "podman"
    /\ "podman" \notin hung
    /\ display' = [display EXCEPT !["podman"] = renderOnto(@, pollPodmanOnceRender(res))]
    /\ ticks' = RemoveAt(Overtaken(ticks, k, ticks[k].src), k)
    /\ TimersUnchanged
    /\ UNCHANGED hung
    /\ ServerUnchanged

\* --- the media poller
startTautulliPolling ==
    /\ IF tautulliTimer # 0
       THEN UNCHANGED <<tautulliTimer, timers, ticks>>
       ELSE /\ Len(timers) < MaxTimers
            /\ Len(ticks) < MaxInFlight
            /\ ticks' = Append(ticks, Tick("tautulli", 1))
            /\ timers' = setInterval(timers, "tautulli", TAUTULLI_POLL_INTERVAL)
            /\ tautulliTimer' = Len(timers) + 1
    /\ UNCHANGED <<pollTimer, podmanTimer, display, hung>>
    /\ ServerUnchanged

TautulliFetchDone(k, res) ==
    /\ ticks[k].src = "tautulli"
    /\ "tautulli" \notin hung
    /\ display' = [display EXCEPT !["tautulli"] = renderOnto(@, pollTautulliOnceRender(res))]
    /\ ticks' = RemoveAt(Overtaken(ticks, k, ticks[k].src), k)
    /\ TimersUnchanged
    /\ UNCHANGED hung
    /\ ServerUnchanged

\* --- the VM poller; intervalMs is 0 when the caller passes none
pollVmOnline(vmid, intervalMs) ==
    /\ Len(timers) < MaxTimers
    /\ Len(ticks) < MaxInFlight
    /\ ticks' = Append(ticks, Tick("vm-" \o vmid, 1))
    /\ timers' = setInterval(timers, "vm-" \o vmid,
                             IF intervalMs # 0 THEN intervalMs ELSE VM_DEFAULT_INTERVAL)
    /\ UNCHANGED <<pollTimer, podmanTimer, tautulliTimer, display, hung>>
    /\ ServerUnchanged

VmFetchDone(k, res) ==
    /\ ticks[k].src \in {"vm-" \o v : v \in VmIds}
    /\ ticks[k].src \notin hung
    /\ display' = [display EXCEPT ![ticks[k].src] = onceRender(res)]
    /\ ticks' = RemoveAt(Overtaken(ticks, k, ticks[k].src), k)
    /\ TimersUnchanged
    /\ UNCHANGED hung
    /\ ServerUnchanged

\* --- an interval elapses: the browser calls the timer's callback
TimerFires(id) ==
    /\ timers[id].active
    /\ Len(ticks) < MaxInFlight
    /\ ticks' = Append(ticks, Tick(timers[id].src, 1))
    /\ TimersUnchanged
    /\ UNCHANGED <<display, hung>>
    /\ ServerUnchanged

HungChoices == {{}, {"pve-master"}}

ClientInit ==
    /\ pollTimer = 0
    /\ podmanTimer = 0
    /\ tautulliTimer = 0
    /\ timers = <<>>
    /\ ticks = <<>>
    /\ display = InitialDisplay
    /\ hung \in HungChoices

TickIds == 1..Len(ticks)

ClientNext ==
    \/ startPolling
    \/ stopPolling
    \/ \E k \in TickIds : \E r \in NodeResults : NodeFetchDone(k, r)
    \/ startPodmanPolling
    \/ \E k \in TickIds : \E r \in PodmanResults : PodmanFetchDone(k, r)
    \/ startTautulliPolling
    \/ \E k \in TickIds : \E r \in TautulliResults : TautulliFetchDone(k, r)
    \/ \E v \in VmIds : \E ms \in {0, 5000} : pollVmOnline(v, ms)
    \/ \E k \in TickIds : \E r \in VmResults : VmFetchDone(k, r)
    \/ \E id \in DOMAIN timers : TimerFires(id)

\* ------------------------------------------------------------ the chat box
\* the calls of sendToAiServer a page may have under way
MaxCalls == 2
ChatUnchanged == UNCHANGED <<serverVars, clientVars, calc>>
CallIds == 1..Len(chat)

\* a call suspended at await fetch: its 30 s timer armed, its controller not aborted
timeoutMs == 30000
NewCall == [pc |-> "fetch", timer |-> "armed", ms |-> timeoutMs, aborted |-> FALSE,
            body |-> "none", result |-> [ok |-> FALSE, reply |-> JNull, error |-> <<>>]]

\* v?.name
OptProp(v, name) == IF Nullish(v) THEN JUndefined ELSE Prop(v, name)

\* JSON.stringify(j); {} is the one body drawn that reaches it
stringify(j) == IF j = JEmpty THEN JStr(<<"{", "}">>) ELSE JStr(<<"{", "...", "}">>)

\* the reply read from a JSON body: choices[0].message.content, choices[0].text,
\* j.reply, or the body as text
chatReply(j) ==
    LET choices == Prop(j, "choices")
        choice == IF ~IsArray(choices) THEN JBool(FALSE)
                  ELSE IF Len(choices.items) > 0 THEN choices.items[1] ELSE JUndefined
        msg == Coalesce(OptProp(OptProp(choice, "message"), "content"),
                        Coalesce(OptProp(choice, "text"), JNull))
    IN  IF Truthy(msg) THEN msg
        ELSE IF Truthy(Prop(j, "reply")) THEN Prop(j, "reply")
        ELSE stringify(j)

T_hello == <<"h", "e", "l", "l", "o">>
ChatJson ==
    {Obj([choices |-> JArr(<<Obj([message |-> Obj([content |-> JStr(T_hello)])])>>)]),
     Obj([choices |-> JArr(<<Obj([text |-> JStr(T_hello)])>>)]),
     Obj([reply |-> JStr(T_hello)]),
     JEmpty}

ChatOk(reply) == [ok |-> TRUE, reply |-> reply, error |-> <<>>]
ChatError(text) == [ok |-> FALSE, reply |-> JNull, error |-> text]

\* the submit handler calls sendToAiServer(userText)
sendToAiServer ==
    /\ Len(chat) < MaxCalls
    /\ chat' = Append(chat, NewCall)
    /\ ChatUnchanged

\* fetch resolves with the response headers: the timer is cleared; a non-2xx
\* status is thrown and caught, otherwise the body is awaited
HeadersArrive(c, ok, ct) ==
    /\ chat[c].pc = "fetch"
    /\ ~chat[c].aborted
    /\ chat' = [chat EXCEPT ![c] =
                  IF ok
                  THEN [@ EXCEPT !.pc = "body", !.timer = "cleared", !.body = ct]
                  ELSE [@ EXCEPT !.pc = "returned", !.timer = "cleared",
                                 !.result = ChatError(<<"Error: HTTP 500">>)]]
    /\ ChatUnchanged

\* fetch rejects on its own: the catch clears the timer
FetchRejects(c) ==
    /\ chat[c].pc = "fetch"
    /\ ~chat[c].aborted
    /\ chat' = [chat EXCEPT ![c] =
                  [@ EXCEPT !.pc = "returned", !.timer = "cleared",
                            !.result = ChatError(<<"TypeError: Failed to fetch">>)]]
    /\ ChatUnchanged

\* the timer elapses: controller.abort()
TimeoutFires(c) ==
    /\ chat[c].timer = "armed"
    /\ chat' = [chat EXCEPT ![c] = [@ EXCEPT !.timer = "fired", !.aborted = TRUE]]
    /\ ChatUnchanged

\* the aborted fetch rejects with an AbortError, which the catch reports
AbortRejects(c) ==
    /\ chat[c].pc = "fetch"
    /\ chat[c].aborted
    /\ chat' = [chat EXCEPT ![c] =
                  [@ EXCEPT !.pc = "returned", !.result = ChatError(<<"Request timed out">>)]]
    /\ ChatUnchanged

\* res.json() resolves with j
JsonArrives(c, j) ==
    /\ chat[c].pc = "body"
    /\ chat[c].body = "application/json"
    /\ chat' = [chat EXCEPT ![c] = [@ EXCEPT !.pc = "returned", !.result = ChatOk(chatReply(j))]]
    /\ ChatUnchanged

\* res.text() resolves
TextArrives(c) ==
    /\ chat[c].pc = "body"
    /\ chat[c].body = "text/plain"
    /\ chat' = [chat EXCEPT ![c] = [@ EXCEPT !.pc = "returned", !.result = ChatOk(JStr(T_hello))]]
    /\ ChatUnchanged

\* reading the body rejects: the catch reports it
BodyRejects(c) ==
    /\ chat[c].pc = "body"
    /\ chat' = [chat EXCEPT ![c] =
                  [@ EXCEPT !.pc = "returned",
                            !.result = ChatError(<<"SyntaxError: Unexpected end of JSON input">>)]]
    /\ ChatUnchanged

ChatNext ==
    \/ sendToAiServer
    \/ \E c \in CallIds : \E ok \in BOOLEAN : \E ct \in {"application/json", "text/plain"} :
           HeadersArrive(c, ok, ct)
    \/ \E c \in CallIds : FetchRejects(c)
    \/ \E c \in CallIds : TimeoutFires(c)
    \/ \E c \in CallIds : AbortRejects(c)
    \/ \E c \in CallIds : \E j \in ChatJson : JsonArrives(c, j)
    \/ \E c \in CallIds : TextArrives(c)
    \/ \E c \in CallIds : BodyRejects(c)

\* ------------------------------------------------ normalisation, input by input
\* a function of the page about to be applied to arg, and the same after it returned
Call(fn, arg) == [fn |-> fn, arg |-> arg, done |-> FALSE]
Returned(call, out) == [fn |-> call.fn, arg |-> call.arg, done |-> TRUE, out |-> out]

\* the fields a node may report; JUndefined is a field left out
CpuChoices == {JUndefined, JNull, JNum(0), JNum(25), JNum(100), JNum(150), JNum(0 - 50)}
CpuUsageChoices == {JUndefined, JNum(42 * Scale), JNum(150 * Scale), JStr(T_42)}
MemoryObjects ==
    {Obj(m) : m \in [used : {JUndefined, JNull, JNum(8 * Scale), JNum(24 * Scale)},
                     free : {JUndefined, JNum(0), JNum(8 * Scale), JNum(16 * Scale)},
                     total : {JUndefined, JNum(0), JNum(16 * Scale)}]}
MemoryChoices == {JUndefined, JStr(T_n_a)} \cup MemoryObjects
OnlineChoices == {JUndefined, JBool(TRUE), JBool(FALSE)}
StatusChoices == {JUndefined, JStr(T_online), JStr(T_offline), JStr(<<>>)}

\* the cpu and online fields in every combination, and the memory figures in
\* every combination beside a cpu reading: the code reads the two apart
NodeData ==
    {Obj(d) : d \in [cpu : CpuChoices, cpu_usage : CpuUsageChoices,
                     online : OnlineChoices, status : StatusChoices]}
    \cup {Obj(d) : d \in [cpu : {JUndefined, JNum(25)}, memory : MemoryChoices,
                          status : {JUndefined, JStr(T_online)}]}
\* the flat spellings of the memory figures
NodeDataFlat ==
    {Obj(d) : d \in [mem_used : {JUndefined, JNum(8 * Scale)},
                     memory_used : {JUndefined, JNum(4 * Scale)},
                     mem_total : {JUndefined, JNum(16 * Scale)},
                     memory_total : {JUndefined, JNum(32 * Scale)}]}
\* bodies that are no object
NonObjects == {JNull, JNum(5 * Scale), JStr(T_error), JBool(FALSE), JArr(<<>>)}

\* a payload carries its fields under data, or bare
NodePayloads ==
    NodeData \cup NodeDataFlat \cup NonObjects
        \cup {Obj([data |-> d]) : d \in NodeData \cup NodeDataFlat \cup NonObjects}

NodeCalls == {Call("fetchNodeStatus", res) : res \in {HttpFailure} \cup
                                                     {NodeReply(j) : j \in NodePayloads}}

fetchNodeStatusReturns ==
    /\ calc.fn = "fetchNodeStatus"
    /\ ~calc.done
    /\ calc' = Returned(calc, fetchNodeStatus(calc.arg))
    /\ UNCHANGED <<serverVars, clientVars, chat>>

\* what a Status may say around "Up 3 hours"
Before == {<<>>, <<"R", "e", "s", "t", "a", "r", "t", "e", "d", ",", " ">>, <<"S", "t", "a", "r", "t", "u", "p", " ", "o", "k", ",", " ">>}
UpTexts == {<<"U", "p", " ", "3", " ", "h", "o", "u", "r", "s">>, <<"u", "p", " ", "3", " ", "h", "o", "u", "r", "s">>, <<"U", "P", " ", "3", " ", "H", "O", "U", "R", "S">>}
After == {<<>>, <<" ", "(", "h", "e", "a", "l", "t", "h", "y", ")">>, <<" ", "a", "g", "o">>, <<" ", " ">>}
UpStatuses == {JStr(b \o u \o a) : b \in Before, u \in UpTexts, a \in After}
OtherStatuses ==
    {JUndefined, JStr(<<>>), JStr(<<"E", "x", "i", "t", "e", "d", " ", "(", "0", ")", " ", "3", " ", "h", "o", "u", "r", "s", " ", "a", "g", "o">>), JStr(<<"C", "r", "e", "a", "t", "e", "d">>), JStr(<<"P", "a", "u", "s", "e", "d", " ", "(", "s", "t", "a", "r", "t", "u", "p", ")">>), JNum(5 * Scale)}

Containers ==
    {Obj(c) : c \in [Names : {JArr(<<JStr(<<"w", "e", "b">>)>>)},
                     State : {JUndefined, JStr(T_running), JStr(<<"e", "x", "i", "t", "e", "d">>)},
                     Status : OtherStatuses \cup {JStr(UP_3_HOURS)},
                     Online : {JUndefined, JBool(TRUE), JBool(FALSE)},
                     ExitCode : {JUndefined, JNum(0), JNum(1 * Scale)},
                     Exited : {JUndefined, JBool(TRUE), JBool(FALSE)},
                     StartedAt : {JUndefined, JStr(<<"2", "0", "2", "4", "-", "0", "5", "-", "0", "1">>)}]}
\* the Status texts around "Up 3 hours", beside a State
UpContainers ==
    {Obj(c) : c \in [Names : {JArr(<<JStr(<<"w", "e", "b">>)>>)},
                     State : {JUndefined, JStr(T_running), JStr(<<"e", "x", "i", "t", "e", "d">>)},
                     Status : UpStatuses,
                     StartedAt : {JUndefined, JStr(<<"2", "0", "2", "4">>)}]}
\* the ways a container may be named
NamedContainers ==
    {Obj(c) : c \in [Names : {JUndefined, JArr(<<>>), JArr(<<JStr(<<"w", "e", "b">>)>>),
                              JStr(<<"w", "e", "b", "2">>)},
                     Name : {JUndefined, JStr(<<"d", "b">>)},
                     Id : {JUndefined, JStr(<<"a", "b", "c">>)}]}

\* one container, or a list with an element that is no object, or no list at all
ContainerLists ==
    {JArr(<<c>>) : c \in Containers \cup UpContainers \cup NamedContainers}
        \cup {JArr(<<>>), JArr(<<C_WEB, C_DB>>), JArr(<<JNull>>), JArr(<<C_WEB, JNull, C_DB>>),
              JArr(<<JStr(T_error)>>), JArr(<<JNum(5 * Scale)>>)}
        \cup {JNull, JEmpty, NotArray, JStr(T_error), JNum(5 * Scale)}

ContainerCalls == {Call("renderPodmanContainers", list) : list \in ContainerLists}

renderPodmanContainersReturns ==
    /\ calc.fn = "renderPodmanContainers"
    /\ ~calc.done
    /\ calc' = Returned(calc, [raised |-> renderPodmanContainersThrows(calc.arg),
                               root |-> renderPodmanContainers(calc.arg)])
    /\ UNCHANGED <<serverVars, clientVars, chat>>

\* the progress fields a media session may report; JUndefined is a field left out
ProgressChoices == {JUndefined, JNull, JNum(0), JNum(4250), JNum(100 * Scale),
                    JNum(150 * Scale), JNum(0 - 5 * Scale)}
OffsetChoices == {JUndefined, JNum(0), JNum(30 * Scale), JNum(90 * Scale)}
DurationChoices == {JUndefined, JNum(0), JNum(60 * Scale)}
ProgressSessions ==
    {Playing(Session("Movie A", "alice", "Roku", p), o, d) :
        p \in ProgressChoices, o \in OffsetChoices, d \in DurationChoices}
SessionCalls ==
    {Call("renderTautulli", ShapeSessions(<<s>>)) : s \in ProgressSessions}
        \cup {Call("renderTautulli", ShapeSessions(<<S_A, s>>)) : s \in ProgressSessions}

renderTautulliReturns ==
    /\ calc.fn = "renderTautulli"
    /\ ~calc.done
    /\ calc' = Returned(calc, renderTautulli(calc.arg))
    /\ UNCHANGED <<serverVars, clientVars, chat>>

Calls == NodeCalls \cup ContainerCalls \cup SessionCalls

NormalizeNext ==
    \/ fetchNodeStatusReturns
    \/ renderPodmanContainersReturns
    \/ renderTautulliReturns

\* ------------------------------------------------------------ properties of the server
FeedRoutes == {R_PODMAN, R_TAUTULLI}
HypervisorRoutes == {R_NODE, R_VM, R_ROOT}

FeedMissing(route) == IF route = R_PODMAN THEN PodmanMissing ELSE TautulliMissing

\* the credentials the handlers of the requests so far have read
KeysRead == {reqs[i].key : i \in ReqIds} \ {NoKey, Absent}

LeaksInRecord(rec, key) ==
    \/ Leaks(rec.url, key)
    \/ Leaks(rec.error, key)
    \/ Leaks(rec.body_snippet, key)

FetchesOf(i) == {f \in DOMAIN fetches : fetches[f].req = i}
ResponsesOf(i) == {j \in DOMAIN sent : sent[j].req = i}

\* C1: every audit record of the containers and media handlers that has a url
\* has the key value of that url replaced by the placeholder, and no record
\* shows a key a handler has read, whatever the outcome of the upstream call.
C1_AuditUrlRedacted ==
    \A j \in DOMAIN logFile :
        logFile[j].route \in FeedRoutes =>
            /\ logFile[j].url # Absent => Contains(logFile[j].url, <<REDACTED>>)
            /\ \A key \in KeysRead : ~LeaksInRecord(logFile[j], key)

\* C2: no body sent to a browser shows a credential a handler has read.
C2_NoCredentialInResponse ==
    \A j \in DOMAIN sent : \A key \in KeysRead : ~Leaks(sent[j].body, key)

\* a request for route arrives in this step
Arrives(route) ==
    /\ Len(reqs') = Len(reqs) + 1
    /\ reqs'[Len(reqs')].route = route

MissingKeyStep(route) ==
    Arrives(route) /\ reqs'[Len(reqs')].key = NoKey

MissingKeyAnswered(route) ==
    /\ sent' = Append(sent, Response(Len(reqs'), 503, JsonError(FeedMissing(route))))
    /\ reqs'[Len(reqs')].state = "done"
    /\ fetches' = fetches

MissingKeyLogged(route) ==
    /\ Len(logFile') = Len(logFile) + 1
    /\ SubSeq(logFile', 1, Len(logFile)) = logFile
    /\ logFile'[Len(logFile')].route = route
    /\ logFile'[Len(logFile')].error = FeedMissing(route)

\* C3 as stated: every containers or media request made with its key unset is
\* answered 503 "not configured", issues no outbound call, and has its audit
\* record with the same error in the log.
C3_MissingKeyAlwaysLogged ==
    \A route \in FeedRoutes :
        LET missing == {i \in ReqIds : reqs[i].route = route /\ reqs[i].key = NoKey}
            logged  == {j \in DOMAIN logFile : /\ logFile[j].route = route
                                               /\ logFile[j].error = FeedMissing(route)}
        IN  /\ Cardinality(logged) = Cardinality(missing)
            /\ \A i \in missing :
                  /\ FetchesOf(i) = {}
                  /\ \E j \in ResponsesOf(i) :
                        sent[j].status = 503 /\ sent[j].body = JsonError(FeedMissing(route))

C3_Step ==
    \A route \in FeedRoutes :
        MissingKeyStep(route) =>
            /\ MissingKeyAnswered(route)
            /\ IF LOGGING_ENABLED /\ warned' = warned
               THEN MissingKeyLogged(route)
               ELSE logFile' = logFile

\* C3 amended: a containers or media request made with its key unset is
\* answered 503 "not configured" in the same step, with no outbound call; the
\* audit record with the same error is appended when logging is enabled and
\* the write does not fail, and the log is left as it was otherwise.
C3_MissingKeyFailsFast == [][C3_Step]_vars

\* a missing-key request answered 503 and logged
C3_Witness ==
    \E i \in ReqIds :
        /\ reqs[i].route = R_PODMAN /\ reqs[i].key = NoKey
        /\ \E j \in ResponsesOf(i) : sent[j].status = 503
        /\ \E j \in DOMAIN logFile : logFile[j].error = PodmanMissing

FieldNames(body) == {body[k] : k \in {k \in 1..(Len(body) - 1) : body[k + 1] = ":"}}

\* every credential an environment or the process may hold
Credentials ==
    (Keys \cup Tokens \cup {e.PODBROADCAST_API_KEY : e \in Envs}
          \cup {e.TAUTULLI_API_KEY : e \in Envs}) \ {NoKey}

EnvResponses == {j \in DOMAIN sent : reqs[sent[j].req].route = R_ENV}

\* C5: the body served at /env.js has the two fields PROXMOX_CLIENT_API_BASE
\* and AI_ADDRESS and no other, and shows no credential, whatever the
\* environment holds.
C5_EnvJsOnlyPublic ==
    \A j \in EnvResponses :
        /\ FieldNames(sent[j].body) = {"PROXMOX_CLIENT_API_BASE", "AI_ADDRESS"}
        /\ \A cred \in Credentials : ~Leaks(sent[j].body, cred)

\* /env.js served by a process that holds the hypervisor token
C5_Witness ==
    /\ PROXMOX_TOKEN # NoKey
    /\ \E j \in EnvResponses : Contains(sent[j].body, <<"https://ajgpt.duckdns.org">>)

\* ------------------------------------------------------------ the answers of the proxy
\* the answer sent in this step
Sent == sent'[Len(sent')]
Answered(i) == Len(sent') = Len(sent) + 1 /\ Sent.req = i

\* the atom that follows marker in a serialized body, "" when there is none
FieldAfter(body, marker) ==
    LET at == {k \in 1..(Len(body) - 1) : body[k] = marker}
    IN  IF at = {} THEN "" ELSE body[(CHOOSE k \in at : \A m \in at : k <= m) + 1]

VmFieldsEcho(i, body) ==
    /\ SubSeq(body, 1, 1) = <<"{\"vmid\":\"">>
    /\ SubSeq(body, 2, 1 + Len(reqs[i].vmid)) = reqs[i].vmid
    /\ Contains(body, <<"\",\"node\":\"">> \o reqs[i].node \o <<"\",\"online\":">>)

BodyOnline(body) == FieldAfter(body, "\",\"online\":") = "true"
BodyStatus(body) == FieldAfter(body, ",\"status\":\"")

C11_StepAsStated ==
    \A i \in ReqIds : \A o \in Replies(VmTexts) : \A w \in BOOLEAN :
        (VmOnlineResume(i, o, w) /\ HasData(o.text)) =>
            /\ Answered(i) /\ Sent.status = 200
            /\ VmFieldsEcho(i, Sent.body)
            /\ BodyStatus(Sent.body) = DataStatus(o.text)
            /\ BodyOnline(Sent.body) <=> DataStatus(o.text) \in {"running", "online"}

\* C11 as stated: when the upstream payload has a data section the VM handler
\* answers 200 with vmid, node, status equal to the upstream data.status, and
\* online true exactly when that status is "running" or "online".
C11_StatusIsDataStatus == [][C11_StepAsStated]_vars

C11_Step ==
    \A i \in ReqIds : \A o \in Replies(VmTexts) : \A w \in BOOLEAN :
        (VmOnlineResume(i, o, w) /\ HasData(o.text)) =>
            LET expected == IF DataStatus(o.text) # "" THEN DataStatus(o.text)
                            ELSE IF DataOnline(o.text) THEN "running" ELSE "stopped"
            IN  /\ Answered(i) /\ Sent.status = 200
                /\ VmFieldsEcho(i, Sent.body)
                /\ BodyStatus(Sent.body) = expected
                /\ BodyOnline(Sent.body) <=> expected \in {"running", "online"}

\* C11 amended: when the upstream payload has a data section the VM handler
\* answers 200 with vmid, node, status and online; status is the upstream
\* data.status when the data section has one, and otherwise "running" when
\* data.online is truthy and "stopped" when it is not; online is true exactly
\* when that status is "running" or "online".
C11_StatusWithFallback == [][C11_Step]_vars

\* a data section with online:true and no status, answered running and online
C11_Witness ==
    /\ \E j \in DOMAIN logFile : logFile[j].body_snippet = DOC_FLAG
    /\ \E j \in DOMAIN sent :
          /\ reqs[sent[j].req].route = R_VM /\ sent[j].status = 200
          /\ BodyStatus(sent[j].body) = "running" /\ BodyOnline(sent[j].body)
          /\ \A k \in DOMAIN sent : k # j => reqs[sent[k].req].route # R_VM

\* the payload is absent, unparsable or has no data section
LacksData(text) == ~JsonParses(text) \/ ParsesToNull(text) \/ ~HasData(text)

VmUnknownBody(i, body) ==
    /\ VmFieldsEcho(i, body)
    /\ ~BodyOnline(body) /\ FieldAfter(body, "\",\"online\":") = "false"
    /\ BodyStatus(body) = "unknown"

C12_StepAsStated ==
    \A i \in ReqIds : \A o \in Replies(VmTexts) : \A w \in BOOLEAN :
        (VmOnlineResume(i, o, w) /\ LacksData(o.text)) =>
            /\ Answered(i) /\ Sent.status = 502
            /\ VmUnknownBody(i, Sent.body)

\* C12 as stated: when the upstream payload is absent, unparsable or lacks a
\* data section the VM handler answers 502 with online:false and
\* status:"unknown", whatever status code the upstream returned.
C12_Always502 == [][C12_StepAsStated]_vars

C13_Step ==
    \A i \in ReqIds : \A o \in Replies(PassthroughTexts) : \A w \in BOOLEAN :
        (NodeStatusResume(i, o, w) \/ RootResume(i, o, w)) =>
            /\ Answered(i)
            /\ Sent.status = o.status
            /\ Sent.body = o.text

\* C13: when the upstream responds, the node-status and root handlers answer
\* with the upstream's status code and the upstream's body text unchanged.
C13_PassthroughMirrors == [][C13_Step]_vars

\* an upstream 404 with a raw body mirrored by the node-status handler, and an
\* upstream 200 mirrored by the root handler
C13_Witness ==
    /\ \E j \in DOMAIN sent :
          /\ reqs[sent[j].req].route = R_NODE
          /\ sent[j].status = 404 /\ sent[j].body = RawText
    /\ \E j \in DOMAIN sent :
          /\ reqs[sent[j].req].route = R_ROOT
          /\ sent[j].status = 200 /\ sent[j].body = DOC_RUNNING

Is2xx(status) == 200 <= status /\ status <= 299

C14_Step ==
    \A i \in ReqIds : \A o \in Replies(FeedTexts) : \A w \in BOOLEAN :
        ((PodmanResume(i, o, w) \/ TautulliResume(i, o, w)) /\ ~Is2xx(o.status)) =>
            Answered(i) /\ Sent.status = o.status

\* C14: when the upstream of the containers or media handler responds with a
\* non-2xx status, the answer carries that status, whether the upstream body
\* parses as JSON or is raw text.
C14_FeedMirrorsBadStatus == [][C14_Step]_vars

\* the handler of request i resumed by outcome o of its fetch
Resumes(i, o, w) ==
    \/ NodeStatusResume(i, o, w)
    \/ VmOnlineResume(i, o, w)
    \/ RootResume(i, o, w)
    \/ PodmanResume(i, o, w)
    \/ TautulliResume(i, o, w)

Answered500(i, o) ==
    /\ Answered(i) /\ Sent.status = 500
    /\ Sent.body = <<"{\"error\":\"">> \o o.err \o <<"\"}">>

ErrorLogged(o) ==
    /\ Len(logFile') = Len(logFile) + 1
    /\ SubSeq(logFile', 1, Len(logFile)) = logFile
    /\ logFile'[Len(logFile')].error = o.err

C15_StepAsStated ==
    \A i \in ReqIds : \A o \in Throws(reqs[i].url) : \A w \in BOOLEAN :
        Resumes(i, o, w) => Answered500(i, o) /\ ErrorLogged(o)

\* C15 as stated: when the outbound fetch throws, every proxy handler answers
\* 500 with a JSON body holding the error message and appends an audit
\* record with the error.
C15_ThrowAlwaysLogged == [][C15_StepAsStated]_vars

C15_Step ==
    \A i \in ReqIds : \A o \in Throws(reqs[i].url) : \A w \in BOOLEAN :
        Resumes(i, o, w) =>
            /\ Answered500(i, o)
            /\ IF LOGGING_ENABLED /\ warned' = warned
               THEN ErrorLogged(o)
               ELSE logFile' = logFile

\* C15 amended: when the outbound fetch throws, every proxy handler answers
\* 500 with a JSON body holding the error message; the audit record with the
\* error is appended when logging is enabled and the write does not fail, and
\* the log is left as it was otherwise.
C15_ThrowAnswered500 == [][C15_Step]_vars

\* a thrown fetch of the root handler answered 500 and logged
C15_Witness ==
    /\ \E j \in DOMAIN sent : reqs[sent[j].req].route = R_ROOT /\ sent[j].status = 500
    /\ \E j \in DOMAIN logFile :
          logFile[j].error = FetchErrorText(RootUrl) /\ logFile[j].status = 0

\* the proxied requests answered so far
ProxiedDone ==
    {i \in ReqIds : /\ reqs[i].route \in FeedRoutes \cup HypervisorRoutes
                    /\ reqs[i].state = "done"}

AppendOnly ==
    /\ Len(logFile') \in {Len(logFile), Len(logFile) + 1}
    /\ SubSeq(logFile', 1, Len(logFile)) = logFile

\* C16 as stated: with logging enabled the log holds exactly one record per
\* proxied request answered, and no step modifies or removes a record.
C16_ExactlyOneRecord ==
    /\ [](LOGGING_ENABLED => Len(logFile) = Cardinality(ProxiedDone))
    /\ [][AppendOnly]_vars

\* C16 amended: with logging enabled every proxied request answered has either
\* its one record in the log or its one warning of a failed write, and no step
\* modifies or removes a record.
C16_OneRecordOrWarning ==
    /\ [](LOGGING_ENABLED => Len(logFile) + warned = Cardinality(ProxiedDone))
    /\ [][AppendOnly]_vars

\* two requests of different outcome, each with its record
C16_Witness ==
    /\ LOGGING_ENABLED /\ warned = 0 /\ Len(logFile) = 2
    /\ logFile[1].error = PodmanMissing
    /\ logFile[2].status = 404 /\ logFile[2].route = R_VM

\* the outcomes the upstream of request i may have
OutcomesOf(i) ==
    Outcomes(IF reqs[i].route = R_VM THEN VmTexts
             ELSE IF reqs[i].route \in FeedRoutes THEN FeedTexts
             ELSE PassthroughTexts, reqs[i].url)

\* what the handler of request i answers to outcome o
HandlerAnswer(i, o) ==
    CASE reqs[i].route = R_NODE -> NodeStatusResponse(i, o)
      [] reqs[i].route = R_VM -> VmResponse(i, reqs[i], o)
      [] reqs[i].route = R_ROOT -> RootResponse(i, o)
      [] reqs[i].route = R_PODMAN -> PodmanResponse(i, o)
      [] OTHER -> TautulliResponse(i, o)

C17_Step ==
    ~LOGGING_ENABLED =>
        /\ logFile' = logFile /\ warned' = warned
        /\ \A i \in ReqIds : \A o \in OutcomesOf(i) :
              Resumes(i, o, TRUE) => Answered(i) /\ Sent = HandlerAnswer(i, o)
        /\ \A route \in FeedRoutes : MissingKeyStep(route) => MissingKeyAnswered(route)

\* C17: with logging disabled the log stays empty and no write is attempted,
\* whatever requests are served, and every request is answered as its handler
\* answers it with logging enabled.
C17_DisabledLogsNothing ==
    /\ [](~LOGGING_ENABLED => logFile = <<>> /\ warned = 0)
    /\ [][C17_Step]_vars

\* logging disabled, two proxied requests answered, nothing logged
C17_Witness ==
    /\ ~LOGGING_ENABLED /\ logFile = <<>>
    /\ Cardinality(ProxiedDone) = 2
    /\ \E j \in DOMAIN sent : sent[j].status = 503
    /\ \E j \in DOMAIN sent : sent[j].status = 500

C18_Step ==
    /\ \A i \in ReqIds : \A o \in OutcomesOf(i) :
          Resumes(i, o, FALSE) => Answered(i) /\ Sent = HandlerAnswer(i, o)
    /\ \A route \in FeedRoutes :
          (MissingKeyStep(route) /\ warned' # warned) => MissingKeyAnswered(route)

\* C18: a request whose audit-log write fails is answered with the status and
\* body its handler sends when the write succeeds, for every handler and
\* every upstream outcome.
C18_WriteFailureSameAnswer == [][C18_Step]_vars

\* every write failed, and the requests were answered all the same
C18_Witness ==
    /\ warned = 2 /\ logFile = <<>>
    /\ \E j \in DOMAIN sent : sent[j].status = 200 /\ reqs[sent[j].req].route = R_NODE
    /\ \E j \in DOMAIN sent : sent[j].status = 503

\* the paths the claim lists: four exact paths, and the prefixes /logs and /.
ListedPath(path) ==
    \/ path \in {<<"/", "server", ".", "js">>, <<"/", "package", ".", "json">>,
                 <<"/", "package", "-lock", ".", "json">>, <<"/", ".", "env">>}
    \/ (Len(path) >= 2 /\ path[1] = "/" /\ path[2] \in {"logs", "."})

\* C19: every request of a listed path is answered 403 by the blocking
\* middleware and by nothing else, express.static least of all; no request
\* to an /api route or to /env.js is answered by the blocking middleware.
C19_BlockedBeforeStatic ==
    /\ \A i \in ReqIds :
          (reqs[i].url \in OtherPaths /\ ListedPath(reqs[i].url)) =>
              /\ reqs[i].route = L_BLOCK
              /\ ResponsesOf(i) # {}
              /\ \A j \in ResponsesOf(i) : sent[j].status = 403 /\ sent[j].body = Forbidden
    /\ \A i \in ReqIds :
          reqs[i].route \in FeedRoutes \cup HypervisorRoutes \cup {R_ENV} =>
              \A j \in ResponsesOf(i) : sent[j].body # Forbidden
    /\ \A path \in ApiPaths \cup {P_ENVJS} : Answers(path, 1) \notin {L_BLOCK, L_STATIC, ""}

\* /.env refused, next to a file of the front end served
C19_Witness ==
    /\ \E i \in ReqIds : reqs[i].url = P_DOTENV /\ reqs[i].route = L_BLOCK
    /\ \E j \in DOMAIN sent : sent[j].status = 403
    /\ \E i \in ReqIds : reqs[i].url = P_INDEX /\ reqs[i].route = L_STATIC

LastRecord == logFile'[Len(logFile')]

C32_Step ==
    \A i \in ReqIds : \A o \in OutcomesOf(i) :
        (LOGGING_ENABLED /\ Resumes(i, o, TRUE)) =>
            /\ Len(logFile') = Len(logFile) + 1
            /\ LastRecord.route = reqs[i].route
            /\ reqs[i].route = R_NODE => LastRecord.node = reqs[i].node

\* C32: the audit record a handler writes names the route of that handler, on
\* the success path and on the failure path alike: a node-status request is
\* recorded under the node-status route with its node, a root request under
\* the root route.
C32_RecordNamesItsRoute == [][C32_Step]_vars

Proxied == {i \in ReqIds : reqs[i].route \in FeedRoutes \cup HypervisorRoutes}

\* C33: a proxy handler sends exactly one response per request on each of its
\* paths: a request whose handler has returned has one response, a request
\* whose handler is still suspended has none, and none ever has two.
C33_ExactlyOneResponse ==
    /\ \A i \in Proxied :
           Cardinality(ResponsesOf(i)) = IF reqs[i].state = "done" THEN 1 ELSE 0
    /\ \A j \in DOMAIN sent : sent[j].req \in ReqIds

\* a media request refused for its missing key and a VM request answered
\* "unknown" for a payload without data, each answered once
C33_Witness ==
    \E i, k \in Proxied :
        /\ reqs[i].route = R_VM /\ reqs[i].state = "done"
        /\ \E j \in ResponsesOf(i) : Contains(sent[j].body, <<"unknown">>)
        /\ reqs[k].route = R_TAUTULLI /\ reqs[k].state = "done"
        /\ \E j \in ResponsesOf(k) : sent[j].status = 503

\* ------------------------------------------------------------ properties of the page
NodeNames == {NODES[i] : i \in 1..Len(NODES)}
Feeds == {"podman", "tautulli"}
Sources == {"nodes"} \cup Feeds \cup {"vm-" \o v : v \in VmIds}

ArmedTimers(src) == {id \in DOMAIN timers : timers[id].src = src /\ timers[id].active}
TicksInFlight(src) == {k \in TickIds : ticks[k].src = src}

NodeRendered(n) == display[n] # InitialNodeCard

\* no interval is armed: nothing but the fetches in flight is scheduled
Quiet == \A id \in DOMAIN timers : ~timers[id].active

\* C6: a pollOnce tick in flight still renders the card of every node whose
\* fetch can complete, whichever node's fetch never completes; stated of a
\* tick left in flight while no interval is armed, up to the next start.
C6_OtherNodesUpdated ==
    \A n \in NodeNames :
        (n \notin hung /\ TicksInFlight("nodes") # {} /\ Quiet)
            ~> (NodeRendered(n) \/ ~Quiet)

\* the explicit error or offline indicator on card c of the page d
ErrorShownIn(d, c) ==
    IF c \in NodeNames
    THEN /\ d[c].status = "Offline"
         /\ d[c].className = "text-red-500"
         /\ d[c].cpuVal = <<EmDash>>
         /\ d[c].memVal = <<EmDash>>
         /\ d[c].cpuBar = 0 /\ d[c].memBar = 0
    ELSE IF c \in Feeds
    THEN /\ Len(d[c]) = 1
         /\ d[c][1].className = ErrorCls
         /\ Contains(d[c][1].text, FetchFailure)
    ELSE /\ d[c].status = "Offline"
         /\ d[c].className = "text-red-500"
         /\ d[c].title = FetchFailure

TimersKept ==
    /\ timers' = timers
    /\ pollTimer' = pollTimer /\ podmanTimer' = podmanTimer /\ tautulliTimer' = tautulliTimer

C7_Step ==
    \A k \in TickIds :
        /\ NodeFetchDone(k, NodeFailed) =>
              ErrorShownIn(display', NODES[ticks[k].idx]) /\ TimersKept
        /\ PodmanFetchDone(k, PodmanFailed) =>
              ErrorShownIn(display', "podman") /\ TimersKept
        /\ TautulliFetchDone(k, TautulliFailed) =>
              ErrorShownIn(display', "tautulli") /\ TimersKept
        /\ VmFetchDone(k, VmFailed) =>
              ErrorShownIn(display', ticks[k].src) /\ TimersKept

\* C7: for every poller, the step that completes a tick whose fetch failed
\* leaves the source's card showing the explicit error or offline indicator
\* and leaves every timer and every timer handle as it was.
C7_FailureShownTimerKept == [][C7_Step]_vars

\* a feed showing its error while its timer is armed and the next tick is in flight
C7_Witness ==
    /\ ErrorShownIn(display, "podman")
    /\ podmanTimer # 0 /\ podmanTimer \in ArmedTimers("podman")
    /\ TicksInFlight("podman") # {}

\* C8: whatever starts have been made, a source has at most one recurring timer.
C8_AtMostOneTimerPerSource ==
    \A src \in Sources : Cardinality(ArmedTimers(src)) <= 1

C9_Step ==
    /\ (pollTimer # 0 /\ pollTimer' = 0) =>
          /\ timers' = clearInterval(timers, pollTimer)
          /\ ArmedTimers("nodes")' = {}
    /\ (stopPolling /\ pollTimer = 0) => UNCHANGED vars
    /\ (pollTimer = 0 /\ Len(ticks') > Len(ticks) /\ ticks'[Len(ticks')].src = "nodes") =>
          /\ pollTimer' # 0
          /\ ArmedTimers("nodes")' = {pollTimer'}

\* C9: while pollTimer is null no node-poll timer is armed, and while it is set
\* exactly the timer it names is; the step that nulls it clears that timer; a
\* stop made while it is null changes nothing; the only step that starts a
\* pollOnce tick while it is null is the start that arms exactly one timer.
C9_StopReturnsToIdle ==
    /\ [](ArmedTimers("nodes") = IF pollTimer = 0 THEN {} ELSE {pollTimer})
    /\ [][C9_Step]_vars

\* polling resumed after a stop: the old timer cleared, the new one armed
C9_Witness ==
    /\ pollTimer # 0
    /\ \E id \in DOMAIN timers : timers[id].src = "nodes" /\ ~timers[id].active
    /\ Cardinality(ArmedTimers("nodes")) = 1

\* C10: a source has at most one poll tick in flight.
C10_AtMostOneTickInFlight ==
    \A src \in Sources : Cardinality(TicksInFlight(src)) <= 1

\* the cards a session list is to be shown as, in the order of the list
CardsOf(list) == [k \in 1..Len(list) |-> SessionCard(list[k])]

\* C20: whichever of the four nestings delivers a session list, the media
\* poll tick shows the sessions of that list in their order, and a payload
\* with no session list shows the "No active streams" element, not an error.
C20_AnyShapeSameSessions ==
    [][\A k \in TickIds : \A res \in TautulliResults :
         (TautulliFetchDone(k, res) /\ res.ok) =>
             /\ \A list \in SessionLists :
                    res.data \in Shapes(list) =>
                        display'["tautulli"] =
                            IF Len(list) = 0 THEN <<NoStreams>> ELSE CardsOf(list)
             /\ res.data \in Malformed => display'["tautulli"] = <<NoStreams>>]_vars

\* the card invocation k writes when it resumes
CardOfTick(k) == IF ticks[k].src = "nodes" THEN NODES[ticks[k].idx] ELSE ticks[k].src

Renders(k) ==
    \/ \E r \in NodeResults : NodeFetchDone(k, r)
    \/ \E res \in PodmanResults : PodmanFetchDone(k, res)
    \/ \E res \in TautulliResults : TautulliFetchDone(k, res)
    \/ \E res \in VmResults : VmFetchDone(k, res)

C34_Step ==
    \A k \in TickIds :
        Renders(k) =>
            /\ CardOfTick(k) \notin ticks[k].behind
            /\ ticks[k].src = "nodes" => pollTimer # 0

\* C34: the updates of a card are applied in tick order: a poll tick never
\* writes a card that a later tick of the same source has written already,
\* and a node-poll tick writes no card once stopPolling has nulled pollTimer.
C34_UpdatesInTickOrder == [][C34_Step]_vars

\* ------------------------------------------------------------ properties of normalisation
\* fetchNodeStatus has returned for a payload that parsed to something
NodeNormalized ==
    /\ calc.fn = "fetchNodeStatus"
    /\ calc.done
    /\ calc.arg.ok
    /\ ~Nullish(calc.arg.json)

\* the field of the payload's data section, JUndefined when it is left out
Field(name) == Prop(nodeData(calc.arg.json), name)
IsNumber(v) == v.t = "number"
Percent(n) == Num(Min(100 * Scale, n))

\* C21: a cpu field that is a fraction in 0..1 is normalised to the fraction
\* times 100, capped at 100; with cpu left out, a numeric cpu_usage is taken
\* as it is, capped at 100.
C21_CpuFractionScaled ==
    NodeNormalized =>
        /\ (IsNumber(Field("cpu")) /\ Field("cpu").n \in 0..Scale) =>
               calc.out.cpu = Percent(Field("cpu").n * 100)
        /\ (Field("cpu").t = "undefined" /\ IsNumber(Field("cpu_usage"))) =>
               calc.out.cpu = Percent(Field("cpu_usage").n)

C21_Witness ==
    /\ NodeNormalized
    /\ IsNumber(Field("cpu")) /\ Field("cpu").n = 25
    /\ calc.out.cpu = Num(25 * Scale)

\* the memory object of the payload has free and total, and no used
FreeAndTotalOnly ==
    /\ NodeNormalized
    /\ Field("memory").t = "object"
    /\ Prop(Field("memory"), "used").t = "undefined"
    /\ IsNumber(Prop(Field("memory"), "free"))
    /\ IsNumber(Prop(Field("memory"), "total"))

MemFree == Prop(Field("memory"), "free").n
MemTotal == Prop(Field("memory"), "total").n

\* C22 as stated: a memory object with free and total and no used is
\* normalised to used = total - free, whatever free and total are.
C22_UsedIsTotalMinusFree ==
    FreeAndTotalOnly =>
        /\ calc.out.mem # Null
        /\ calc.out.mem[1].used = MemTotal - MemFree

\* C22: a memory object with free and total and no used is normalised to
\* used = total - free when total is not 0, free = 0 and free = total included;
\* with a total of 0 the normalised record has no memory figures.
C22_UsedIsTotalMinusFreeUnlessNoTotal ==
    FreeAndTotalOnly =>
        IF MemTotal # 0
        THEN /\ calc.out.mem # Null
             /\ calc.out.mem[1].used = MemTotal - MemFree
             /\ calc.out.mem[1].total = MemTotal
        ELSE calc.out.mem = Null /\ calc.out.memPct = Null

C22_Witness ==
    /\ FreeAndTotalOnly
    /\ MemFree = MemTotal /\ MemTotal = 16 * Scale
    /\ calc.out.mem # Null
    /\ calc.out.mem[1].used = 0

\* C28: every normalised node status has cpu null or within 0..100, and used
\* no greater than total when both memory figures are there.
C28_CpuAndMemoryInRange ==
    NodeNormalized =>
        /\ calc.out.cpu # Null =>
               (calc.out.cpu[1] >= 0 /\ calc.out.cpu[1] <= 100 * Scale)
        /\ calc.out.mem # Null => calc.out.mem[1].used <= calc.out.mem[1].total

IsString(v) == v.t = "string"

\* C29 as stated: an online field wins; without it a status string gives online
\* exactly when it is 'online'; without either, online is true.
C29_OnlinePrecedence ==
    NodeNormalized =>
        /\ Field("online").t # "undefined" => calc.out.online = Field("online")
        /\ (Field("online").t = "undefined" /\ IsString(Field("status"))) =>
               calc.out.online = JBool(Field("status").s = T_online)
        /\ (Field("online").t = "undefined" /\ Field("status").t = "undefined") =>
               calc.out.online = JBool(TRUE)

\* C29: an online field wins, also when it is false and status is 'online';
\* without it a non-empty status string gives online exactly when it is
\* 'online'; with neither, or with an empty status, online is true.
C29_OnlinePrecedenceNonEmptyStatus ==
    NodeNormalized =>
        /\ Field("online").t # "undefined" => calc.out.online = Field("online")
        /\ (Field("online").t = "undefined" /\ IsString(Field("status"))
                /\ Field("status").s # <<>>) =>
               calc.out.online = JBool(Field("status").s = T_online)
        /\ (Field("online").t = "undefined" /\ IsString(Field("status"))
                /\ Field("status").s = <<>>) =>
               calc.out.online = JBool(TRUE)
        /\ (Field("online").t = "undefined" /\ Field("status").t = "undefined") =>
               calc.out.online = JBool(TRUE)

C29_Witness ==
    /\ NodeNormalized
    /\ Field("online").t = "boolean" /\ ~Field("online").b
    /\ IsString(Field("status")) /\ Field("status").s = T_online
    /\ calc.out.online = JBool(FALSE)

\* renderPodmanContainers has returned for a list of one container object
OneContainer ==
    /\ calc.fn = "renderPodmanContainers"
    /\ calc.done
    /\ IsArray(calc.arg)
    /\ Len(calc.arg.items) = 1
    /\ calc.arg.items[1].t = "object"

TheContainer == calc.arg.items[1]
StatusOf == Prop(TheContainer, "Status")

\* its card is the one child of the list
OneCard == ~calc.out.raised /\ Len(calc.out.root) = 1
TheCard == calc.out.root[1]


\* Status says "Up 3 hours" in some mix of cases
SaysUp3Hours ==
    /\ OneContainer
    /\ IsString(StatusOf)
    /\ Contains(toLowerCase(StatusOf.s), toLowerCase(UP_3_HOURS))

\* "up" in either case with whitespace after it, at position j of s
UpAt(s, j) ==
    /\ j + 2 <= Len(s)
    /\ toLowerChar(s[j]) = "u" /\ toLowerChar(s[j + 1]) = "p"
    /\ s[j + 2] \in Whitespace

\* s spells "Up 3 hours" so, no "up" with whitespace after it comes earlier, and
\* what follows is blank or is blanks and then a parenthesis
PlainUp3Hours(s) ==
    \E k \in 0..(Len(s) - Len(UP_3_HOURS)) :
        /\ SubSeq(s, k + 1, k + Len(UP_3_HOURS)) = UP_3_HOURS
        /\ \A j \in 1..k : ~UpAt(s, j)
        /\ LET rest == trimStart(SubSeq(s, k + Len(UP_3_HOURS) + 1, Len(s)))
           IN  rest = <<>> \/ rest[1] \in {"(", ")"}

\* C23 as stated: a Status that says "Up 3 hours" in any case, whatever comes
\* before or after, gives a card that is Online with the uptime text
\* "Up 3 hours".
C23_UptimeWhateverSurrounds ==
    SaysUp3Hours =>
        /\ OneCard
        /\ TheCard.statusVal = "Online"
        /\ TheCard.uptime = UP_3_HOURS

\* C23: a Status that says "Up 3 hours" in any case gives a card that is
\* Online; its uptime text is "Up 3 hours" exactly when Status spells it so,
\* no "up" followed by whitespace comes before it, and only blanks or a
\* parenthesised remark follow it.
C23_UptimeWhenPlain ==
    SaysUp3Hours =>
        /\ OneCard
        /\ TheCard.statusVal = "Online"
        /\ TheCard.uptime = UP_3_HOURS <=> PlainUp3Hours(StatusOf.s)

C23_Witness ==
    /\ SaysUp3Hours
    /\ Len(StatusOf.s) > Len(UP_3_HOURS)
    /\ PlainUp3Hours(StatusOf.s)
    /\ OneCard
    /\ TheCard.uptime = UP_3_HOURS

\* Status is a string with "up" in it, in either case
StatusHasUp ==
    /\ IsString(StatusOf)
    /\ \E j \in 1..(Len(StatusOf.s) - 1) :
           toLowerChar(StatusOf.s[j]) = "u" /\ toLowerChar(StatusOf.s[j + 1]) = "p"

ExitedCleanly ==
    /\ Prop(TheContainer, "ExitCode") = JNum(0)
    /\ ~Truthy(Prop(TheContainer, "Exited"))

\* C30: a container whose Status is a string or left out gets a card, and
\* every card rendered is Online exactly when State is 'running', or Status has
\* "up" in it in either case, or Online is true, or ExitCode is 0 and Exited
\* is not set; every other card is Offline.
C30_RunningExactlyWhen ==
    OneContainer =>
        /\ (StatusOf.t \in {"undefined", "string"}) => OneCard
        /\ OneCard =>
             /\ TheCard.statusVal \in {"Online", "Offline"}
             /\ TheCard.statusVal = "Online" <=>
                    \/ Prop(TheContainer, "State") = JStr(T_running)
                    \/ StatusHasUp
                    \/ Prop(TheContainer, "Online") = JBool(TRUE)
                    \/ ExitedCleanly

C30_Witness ==
    /\ OneContainer
    /\ OneCard
    /\ ExitedCleanly
    /\ Prop(TheContainer, "State").t = "undefined"
    /\ Prop(TheContainer, "Online").t = "undefined"
    /\ ~StatusHasUp
    /\ TheCard.statusVal = "Online"

\* the body of a node answer is no object
NonObjectBody ==
    /\ calc.fn = "fetchNodeStatus"
    /\ calc.done
    /\ calc.arg.ok
    /\ calc.arg.json.t # "object"

\* C27: whatever JSON value the proxy returns, renderPodmanContainers returns
\* without raising, and fetchNodeStatus turns a body that is no object into the
\* safe default: not online, no cpu and no memory figures.
C27_NormalizationTotal ==
    /\ (calc.fn = "renderPodmanContainers" /\ calc.done) => ~calc.out.raised
    /\ NonObjectBody =>
           /\ ~Truthy(calc.out.online)
           /\ calc.out.cpu = Null /\ calc.out.memPct = Null /\ calc.out.mem = Null

\* the node whose card tick k renders next
NodeOfTick(k) == NODES[ticks[k].idx]

C24_Step ==
    \A k \in TickIds :
        /\ \A r \in NodeResults :
               NodeFetchDone(k, r) =>
                   \A before \in {InitialNodeCard, display'[NodeOfTick(k)]} :
                       [[display EXCEPT ![NodeOfTick(k)] = before]
                            EXCEPT ![NodeOfTick(k)] = updateNodeUI(r)] = display'
        /\ \A res \in PodmanResults :
               PodmanFetchDone(k, res) =>
                   \A before \in {<<>>, InitialFeed, display'["podman"]} :
                       renderOnto(before, pollPodmanOnceRender(res)) = display'["podman"]
        /\ \A res \in TautulliResults :
               TautulliFetchDone(k, res) =>
                   \A before \in {<<>>, InitialFeed, display'["tautulli"]} :
                       renderOnto(before, pollTautulliOnceRender(res)) = display'["tautulli"]
        /\ \A res \in VmResults :
               VmFetchDone(k, res) =>
                   \A before \in {InitialVmCard, display'[ticks[k].src]} :
                       [[display EXCEPT ![ticks[k].src] = before]
                            EXCEPT ![ticks[k].src] = onceRender(res)] = display'

\* C24: for every renderer, the step that renders an input leaves the card as
\* rendering the same input once more would leave it, and as rendering it over
\* any other earlier content would: what was displayed before does not show.
C24_RenderIdempotent == [][C24_Step]_vars

\* the container list was rendered over the list of an earlier tick
C24_Witness ==
    /\ Len(display["podman"]) = 2
    /\ display["podman"][1] = ContainerCard(C_WEB)
    /\ display["podman"][2] = ContainerCard(C_DB)
    /\ display["tautulli"] = <<NoStreams>>
    /\ TicksInFlight("podman") # {}

\* C26: every card a poll tick has rendered shows a value in each field:
\* Online or Offline for the status, and a figure or the placeholder for cpu,
\* memory and uptime; none is blank.
C26_NoFieldBlank ==
    /\ \A n \in NodeNames :
           NodeRendered(n) =>
               /\ display[n].status \in {"Online", "Offline"}
               /\ display[n].cpuVal # <<>>
               /\ display[n].memVal # <<>>
    /\ \A j \in DOMAIN display["podman"] :
           "uptime" \in DOMAIN display["podman"][j] => display["podman"][j].uptime # <<>>

SessionsRendered == calc.fn = "renderTautulli" /\ calc.done
SessionsIn == Prop(calc.arg, "sessions").items
ProgressShown(k) == calc.out[k].text[5]

\* C31: for every media session the progress shown is the explicit progress
\* field when the session has one, else view_offset / duration * 100, and a
\* progress value that is shown lies within 0..100.
C31_ProgressFromFieldElseComputedInRange ==
    SessionsRendered =>
        \A k \in 1..Len(SessionsIn) :
            LET s == SessionsIn[k]
                pct == roundPercent(ToNumber(s.view_offset), ToNumber(s.duration))
            IN  /\ s.progress.t = "number" =>
                       /\ ProgressShown(k) = NumberText(s.progress.n) \o "%"
                       /\ 0 <= s.progress.n /\ s.progress.n <= 100 * Scale
                /\ (s.progress.t = "undefined" /\ Truthy(s.view_offset)
                                               /\ Truthy(s.duration)) =>
                       /\ ProgressShown(k) = ToString(pct) \o "%"
                       /\ 0 <= pct /\ pct <= 100

\* ------------------------------------------------------------ properties of the chat box
\* C25: every call of sendToAiServer made eventually returns a result, and a
\* call that has returned holds no armed timer.
C25_EveryCallReturns ==
    /\ \A c \in 1..MaxCalls :
           (Len(chat) >= c) ~> (Len(chat) >= c /\ chat[c].pc = "returned")
    /\ [](\A c \in CallIds : chat[c].pc = "returned" => chat[c].timer # "armed")

\* ------------------------------------------------------------ specifications
\* the proxy server, with the page idle
ServerSpecInit ==
    /\ ServerInit
    /\ pollTimer = 0 /\ podmanTimer = 0 /\ tautulliTimer = 0
    /\ timers = <<>> /\ ticks = <<>> /\ display = InitialDisplay /\ hung = {}
    /\ chat = <<>> /\ calc = NoCalc

ServerSpec == ServerSpecInit /\ [][ServerNext]_vars

\* the browser page, with the server as started with its defaults
ClientSpecInit ==
    /\ ClientInit
    /\ LOGGING_ENABLED = TRUE /\ PROXMOX_TOKEN = NoKey
    /\ logFile = <<>> /\ warned = 0 /\ reqs = <<>> /\ fetches = <<>> /\ sent = <<>>
    /\ chat = <<>> /\ calc = NoCalc

ClientSpec == ClientSpecInit /\ [][ClientNext]_vars

\* the browser delivers every settled fetch and every elapsed interval
ClientFairness ==
    /\ WF_vars(\E k \in TickIds : \E r \in NodeResults : NodeFetchDone(k, r))
    /\ WF_vars(\E k \in TickIds : \E r \in PodmanResults : PodmanFetchDone(k, r))
    /\ WF_vars(\E k \in TickIds : \E r \in TautulliResults : TautulliFetchDone(k, r))
    /\ WF_vars(\E k \in TickIds : \E r \in VmResults : VmFetchDone(k, r))
    /\ WF_vars(\E id \in DOMAIN timers : TimerFires(id))

ClientFairSpec == ClientSpecInit /\ [][ClientNext]_vars /\ ClientFairness

\* one function of the page applied to one input
NormalizeInit ==
    /\ LOGGING_ENABLED = TRUE /\ PROXMOX_TOKEN = NoKey
    /\ logFile = <<>> /\ warned = 0 /\ reqs = <<>> /\ fetches = <<>> /\ sent = <<>>
    /\ pollTimer = 0 /\ podmanTimer = 0 /\ tautulliTimer = 0
    /\ timers = <<>> /\ ticks = <<>> /\ display = InitialDisplay /\ hung = {}
    /\ chat = <<>> /\ calc \in Calls

NormalizeSpec == NormalizeInit /\ [][NormalizeNext]_vars

\* the chat box alone, the pollers not started
ChatInit ==
    /\ LOGGING_ENABLED = TRUE /\ PROXMOX_TOKEN = NoKey
    /\ logFile = <<>> /\ warned = 0 /\ reqs = <<>> /\ fetches = <<>> /\ sent = <<>>
    /\ pollTimer = 0 /\ podmanTimer = 0 /\ tautulliTimer = 0
    /\ timers = <<>> /\ ticks = <<>> /\ display = InitialDisplay /\ hung = {}
    /\ chat = <<>> /\ calc = NoCalc

ChatSpec == ChatInit /\ [][ChatNext]_vars

\* the browser runs an elapsed timer's callback and settles an aborted fetch; when
\* the endpoint answers, if ever, is up to the endpoint
ChatFairness ==
    /\ WF_vars(\E c \in CallIds : TimeoutFires(c))
    /\ WF_vars(\E c \in CallIds : AbortRejects(c))

ChatFairSpec == ChatInit /\ [][ChatNext]_vars /\ ChatFairness
====
